---- MODULE Spec2Model ----
(***************************************************************************)
(* agent-office: the cron request workflow, the cron job registry, its      *)
(* schedule check and its run history, the task board and its search, the   *)
(* coworker cascade delete, the messages and their watchers, the command   *)
(* line, over the three storage backends (in-memory, SQLite, PostgreSQL).  *)
(*                                                                         *)
(* The tables are maps from row id to row.  A service call is one action   *)
(* when it runs alone; where invocations race, every store access of a     *)
(* call is a step of its own.                                              *)
(***************************************************************************)
EXTENDS Integers, Sequences, FiniteSets, TLC

\* ---------------------------------------------------------------- bounds
MaxClock == 2
MaxSessions == 2
MaxCronJobs == 3
MaxCronRequests == 2
MaxMessages == 2
MaxTasks == 1
MaxOwned == 1
MaxHistory == 3
MaxPending == 2

\* ---------------------------------------------------------------- values
\* null of a nullable text column, and undefined of an optional argument
NULL == "<null>"
UNDEFINED == "<undefined>"
\* null of a nullable date column (the clock starts after it)
NoDate == 0

Backends == {"mock", "sqlite", "postgres"}
CoworkerNames == {"alice", "bob"}
CoworkerTypes == {"assistant"}
Reviewers == {"bob", "carol"}
ReviewerNotes == {UNDEFINED, "lgtm"}
CronNames == {"standup", "weekly"}
Timezones == {NULL, "UTC"}
Messages == {"hello"}

\* reviewerNotes ?? null
Coalesce(x) == IF x = UNDEFINED THEN NULL ELSE x

VARIABLES
  backend,               \* which AgentOfficeStorage implementation is in use
  clock,                 \* new Date() / NOW()
  sessions, sessionIdCounter,
  messages, messageIdCounter,
  cronJobs, cronJobIdCounter,
  cronRequests, cronRequestIdCounter,
  tasks, taskIdCounter,
  inv,                   \* the racing service invocations, one per process
  del,                   \* the deleteCoworker invocation in progress
  tx,                    \* the open transaction's uncommitted tables
  observed,              \* what a concurrent reader has read
  last,                  \* outcome of the latest call: value returned or error thrown
  cronHistory, cronHistoryIdCounter,
  send,                  \* the sendMessage invocation in progress
  listeners,             \* the watch listeners subscribed
  pending,               \* per listener, the initial notifications watch has yet to deliver
  invoked,               \* the listeners called by the latest notification
  coworkerMailState,     \* recipient name -> (sender name -> last received mail time)
  initialized,           \* whether initializeState has filled coworkerMailState
  cli,                   \* the command-line invocation in progress and its storage
  initializing,          \* per watch call, how far its initializeState has come
  delivered              \* per listener, the state it was last called with

tables == <<sessions, sessionIdCounter, messages, messageIdCounter, cronJobs,
            cronJobIdCounter, cronRequests, cronRequestIdCounter, tasks, taskIdCounter>>
others == <<cronHistoryIdCounter, send, listeners, pending, invoked, coworkerMailState,
            initialized, cli, initializing, delivered>>
vars == <<backend, clock, tables, inv, del, tx, observed, last, cronHistory, others>>

Procs == {1, 2}

\* ---------------------------------------------------------------- helpers
Min(S) == CHOOSE x \in S : \A y \in S : x <= y
Max(S) == CHOOSE x \in S : \A y \in S : x >= y
Remove(table, id) == [i \in DOMAIN table \ {id} |-> table[i]]
Insert(table, row) == [i \in DOMAIN table \cup {row.id} |-> IF i = row.id THEN row ELSE table[i]]

Result(op, outcome, id, name, detail) ==
  [op |-> op, outcome |-> outcome, id |-> id, name |-> name, detail |-> detail]

NoInv == [op |-> "none", pc |-> "idle", id |-> 0, name |-> "", cron |-> "", by |-> "",
          notes |-> NULL, read |-> "", outcome |-> ""]
NoDel == [pc |-> "idle", name |-> "", sessionId |-> 0, cursor |-> <<>>, pre |-> <<>>]
NoTx == <<>>
\* no initializeState under way
NotInitializing == [pc |-> "idle", sessions |-> <<>>]
\* no command running: let storage = null
NoCli == [pc |-> "idle", command |-> "", storage |-> "null", error |-> ""]
NoSend == [pc |-> "idle", from |-> "", recipients |-> <<>>, body |-> "", pre |-> <<>>]
Listeners == {"l1", "l2"}
\* the listeners called by the latest step that called any, and a bit that alternates
\* with every such step
NoneInvoked == [n |-> 0, called |-> {}]
NotObserved == <<>>

Idle == del.pc = "idle" /\ \A p \in Procs : inv[p].pc = "idle"

\* ---------------------------------------------------------------- storage: sessions
\* id of the first row with that name, as Array.find / SELECT ... WHERE name = ?
SessionIdsByName(S, name) == {id \in DOMAIN S : S[id].name = name}
sessionExists(S, name) == SessionIdsByName(S, name) # {}
getSessionIdByName(S, name) == Min(SessionIdsByName(S, name))

St_createSession(S, counter, name, coworkerType) ==
  Insert(S, [id |-> counter, name |-> name, coworkerType |-> coworkerType, status |-> NULL])

\* ---------------------------------------------------------------- storage: cron requests
St_createCronRequest(R, counter, name, sessionName, schedule, timezone, message, now) ==
  Insert(R, [id |-> counter, name |-> name, session_name |-> sessionName,
             schedule |-> schedule, timezone |-> timezone, message |-> message,
             status |-> "pending", requested_at |-> now, reviewed_at |-> NoDate,
             reviewed_by |-> NULL, reviewer_notes |-> NULL])

\* an update that leaves reviewed_by as it is
St_updateCronRequestStatus_KeepsReviewer(R, id, status, reviewedBy, reviewerNotes, now) ==
  IF id \in DOMAIN R
    THEN [R EXCEPT ![id].status = status, ![id].reviewed_at = now,
                   ![id].reviewer_notes = Coalesce(reviewerNotes)]
    ELSE R

\* UPDATE cron_requests SET ... WHERE id = ?  (no condition on the status)
St_updateCronRequestStatus(R, id, status, reviewedBy, reviewerNotes, now) ==
  IF id \in DOMAIN R
    THEN [R EXCEPT ![id].status = status, ![id].reviewed_at = now,
                   ![id].reviewed_by = reviewedBy,
                   ![id].reviewer_notes = Coalesce(reviewerNotes)]
    ELSE R

St_deleteCronRequest(R, id) == Remove(R, id)

\* ---------------------------------------------------------------- storage: listing
\* `if (filters?.x)`: a filter that is missing, null or the empty string is not applied
Truthy(x) == x \notin {UNDEFINED, NULL, ""}

\* the ids of S in ascending order of key, rows with equal keys in insertion order
RECURSIVE SortIds(_, _)
SortIds(S, key) ==
  IF S = {} THEN <<>>
  ELSE LET first == CHOOSE i \in S : \A j \in S : key[i] < key[j] \/ (key[i] = key[j] /\ i <= j)
       IN <<first>> \o SortIds(S \ {first}, key)

\* a.name.localeCompare(b.name) / ORDER BY name, over the names in use
NameOrder == <<"", "standup", "weekly">>
NameRank(n) == CHOOSE i \in 1 .. Len(NameOrder) : NameOrder[i] = n

\* text.includes(query) and text LIKE 'query%', texts being sequences of characters
StartsWith(text, query) ==
  Len(query) <= Len(text) /\ SubSeq(text, 1, Len(query)) = query
Includes(text, query) ==
  \E k \in 0 .. Len(text) :
     k + Len(query) <= Len(text) /\ SubSeq(text, k + 1, k + Len(query)) = query
Matches(b, text, query) ==
  IF b = "mock" THEN Includes(text, query) ELSE StartsWith(text, query)

\* ---------------------------------------------------------------- storage: messages
St_createMessage(M, counter, from, to, body, now) ==
  Insert(M, [id |-> counter, from_name |-> from, to_name |-> to, body |-> body,
             read |-> FALSE, injected |-> FALSE, notified |-> FALSE, created_at |-> now])

\* DELETE FROM messages WHERE from_name = ? OR to_name = ?
\* the messages to name, the unread ones when filters.unread is true (left out, it is
\* as good as false), latest first
St_listMessagesForRecipient(M, name, unread) ==
  SortIds({i \in DOMAIN M : M[i].to_name = name /\ (unread => ~M[i].read)},
          [i \in DOMAIN M |-> 0 - M[i].created_at])

St_markMessageAsRead(M, id) == IF id \in DOMAIN M THEN [M EXCEPT ![id].read = TRUE] ELSE M

St_deleteMessagesForCoworker(M, name) ==
  [i \in {j \in DOMAIN M : M[j].from_name # name /\ M[j].to_name # name} |-> M[i]]

\* ---------------------------------------------------------------- storage: cron jobs
St_listCronJobsForSession(J, sessionName) ==
  SortIds({i \in DOMAIN J : J[i].session_name = sessionName},
          [i \in DOMAIN J |-> NameRank(J[i].name)])

cronJobExistsForSession(J, name, sessionName) ==
  \E i \in DOMAIN J : J[i].name = name /\ J[i].session_name = sessionName

\* what the schema refuses: idx_cron_jobs_name_session, and session_name REFERENCES
\* sessions(name); the in-memory storage has no schema
CronJobInsertRefused(b, S, J, name, sessionName) ==
  /\ b # "mock"
  /\ cronJobExistsForSession(J, name, sessionName) \/ ~sessionExists(S, sessionName)

St_createCronJob(J, counter, name, sessionName, schedule, timezone, message, now) ==
  Insert(J, [id |-> counter, name |-> name, session_name |-> sessionName,
             schedule |-> schedule, timezone |-> timezone, message |-> message,
             enabled |-> TRUE, created_at |-> now, last_run |-> NoDate])

St_deleteCronJob(J, id) == Remove(J, id)

St_setCronJobEnabled(J, id, enabled) ==
  IF id \in DOMAIN J THEN [J EXCEPT ![id].enabled = enabled] ELSE J

\* ---------------------------------------------------------------- storage: cron requests, listed
St_listCronRequests(R, status, sessionName) ==
  SortIds({i \in DOMAIN R : /\ Truthy(status) => R[i].status = status
                            /\ Truthy(sessionName) => R[i].session_name = sessionName},
          [i \in DOMAIN R |-> 0 - R[i].requested_at])

\* ---------------------------------------------------------------- storage: tasks
St_createTask(T, counter, title, description, assignee, column, dependencies, now) ==
  Insert(T, [id |-> counter, title |-> title, description |-> description,
             assignee |-> assignee, column |-> column, dependencies |-> dependencies,
             created_at |-> now, updated_at |-> now])

\* updateTask(id, { assignee }): the one field deleteCoworker updates
St_updateTaskAssignee(T, id, assignee, now) ==
  IF id \in DOMAIN T
    THEN [T EXCEPT ![id].assignee = assignee, ![id].updated_at = now]
    ELSE T

\* updateTask(id, updates): updates holds the fields that are not undefined.  The SQL
\* backends build the SET list from them and return the row as it is when the list is
\* empty; the in-memory storage sets updated_at whatever the list.
UpdateFields == {"title", "description", "assignee", "column", "dependencies"}
Supplied(updates) == DOMAIN updates \cap UpdateFields

\* the PostgreSQL statement is built with ? for its parameters, which the server does
\* not take for a parameter ($1 is one): the statement is refused
St_updateTaskThrows(b, updates) == b = "postgres" /\ Supplied(updates) # {}

St_updateTask(b, T, id, updates, now) ==
  IF id \notin DOMAIN T \/ (b # "mock" /\ Supplied(updates) = {})
    THEN T
    ELSE [T EXCEPT ![id] = [f \in DOMAIN T[id] |->
                              IF f \in Supplied(updates) THEN updates[f]
                              ELSE IF f = "updated_at" THEN now
                              ELSE T[id][f]]]

St_deleteTask(T, id) == Remove(T, id)

St_searchTasks(b, T, query, assignee, column) ==
  SortIds({i \in DOMAIN T :
             /\ Matches(b, T[i].title, query) \/ Matches(b, T[i].description, query)
             /\ Truthy(assignee) => T[i].assignee = assignee
             /\ Truthy(column) => T[i].column = column},
          [i \in DOMAIN T |-> 0 - T[i].created_at])

\* ---------------------------------------------------------------- storage: deleting a session
St_deleteSession(S, id) == Remove(S, id)

\* ON DELETE CASCADE of cron_jobs.session_name and cron_requests.session_name: the rows
\* left in table X once the session id is deleted from S
FkCascade(b, S, id, X) ==
  IF b = "mock" \/ id \notin DOMAIN S
    THEN X
    ELSE [i \in {j \in DOMAIN X : X[j].session_name # S[id].name} |-> X[i]]

\* ---------------------------------------------------------------- storage: cron history
\* cron_history.cron_job_id REFERENCES cron_jobs(id): an insert naming no stored job is
\* refused by the SQL backends; the in-memory storage pushes whatever it is given
CronHistoryInsertRefused(b, J, cronJobId) == b # "mock" /\ cronJobId \notin DOMAIN J

St_createCronHistory(H, counter, cronJobId, executedAt, success, errorMessage) ==
  Insert(H, [id |-> counter, cron_job_id |-> cronJobId, executed_at |-> executedAt,
             success |-> success, error_message |-> Coalesce(errorMessage)])

\* the n first elements of a sequence: slice(0, n) / LIMIT n, for n >= 0
Slice(seq, n) == SubSeq(seq, 1, IF n < Len(seq) THEN n ELSE Len(seq))

\* filter by job, sort by executed_at descending, slice(0, limit) / LIMIT
St_listCronHistory(H, cronJobId, limit) ==
  Slice(SortIds({i \in DOMAIN H : H[i].cron_job_id = cronJobId},
                [i \in DOMAIN H |-> 0 - H[i].executed_at]),
        limit)

\* ON DELETE CASCADE of cron_history.cron_job_id: the history rows left once the cron
\* jobs table is J
HistoryCascade(b, H, J) ==
  IF b = "mock" THEN H ELSE [i \in {j \in DOMAIN H : H[j].cron_job_id \in DOMAIN J} |-> H[i]]

\* ---------------------------------------------------------------- schedules
\* A schedule string, as its whitespace-separated fields.
EveryMinute == <<"*", "*", "*", "*", "*">>
At0300 == <<"0", "3", "*", "*", "*">>
Unparsable == <<"whenever">>
Schedules == {EveryMinute, At0300, Unparsable}

\* ---------------------------------------------------------------- initial state
Init ==
  /\ backend \in Backends
  /\ clock = 1
  /\ sessions = <<>> /\ sessionIdCounter = 1
  /\ messages = <<>> /\ messageIdCounter = 1
  /\ cronJobs = <<>> /\ cronJobIdCounter = 1
  /\ cronRequests = <<>> /\ cronRequestIdCounter = 1
  /\ tasks = <<>> /\ taskIdCounter = 1
  /\ inv = [p \in Procs |-> NoInv]
  /\ del = NoDel
  /\ tx = NoTx
  /\ observed = NotObserved
  /\ last = Result("none", "", 0, "", "")
  /\ cronHistory = <<>> /\ cronHistoryIdCounter = 1
  /\ send = NoSend
  /\ listeners = {}
  /\ pending = [l \in Listeners |-> 0]
  /\ invoked = NoneInvoked
  /\ coworkerMailState = <<>>
  /\ initialized = FALSE
  /\ cli = NoCli
  /\ initializing = [l \in Listeners |-> NotInitializing]
  /\ delivered = [l \in Listeners |-> <<>>]

\* time passes between two calls
Tick ==
  /\ clock < MaxClock
  /\ clock' = clock + 1
  /\ UNCHANGED <<backend, others, cronHistory, tables, inv, del, tx, observed, last>>

\* ---------------------------------------------------------------- SessionService
\* a create that does not ask whether the name is taken
createSession_NoExistsCheck(name, coworkerType) ==
  /\ sessionIdCounter <= MaxSessions
  /\ sessions' = St_createSession(sessions, sessionIdCounter, name, coworkerType)
  /\ sessionIdCounter' = sessionIdCounter + 1
  /\ last' = Result("createSession", "ok", sessionIdCounter, name, "")
  /\ UNCHANGED <<backend, others, cronHistory,
                 clock, messages, messageIdCounter, cronJobs, cronJobIdCounter,
                 cronRequests, cronRequestIdCounter, tasks, taskIdCounter, inv, del, tx,
                 observed>>

createSession(name, coworkerType) ==
  /\ IF sessionExists(sessions, name)
       THEN /\ last' = Result("createSession", "already_exists", 0, name, "")
            /\ UNCHANGED <<sessions, sessionIdCounter>>
       ELSE /\ sessionIdCounter <= MaxSessions
            /\ sessions' = St_createSession(sessions, sessionIdCounter, name, coworkerType)
            /\ sessionIdCounter' = sessionIdCounter + 1
            /\ last' = Result("createSession", "ok", sessionIdCounter, name, "")
  /\ UNCHANGED <<backend, others, cronHistory,
                 clock, messages, messageIdCounter, cronJobs, cronJobIdCounter,
                 cronRequests, cronRequestIdCounter, tasks, taskIdCounter, inv, del, tx,
                 observed>>

\* SessionService.deleteSession: the storage call and nothing else
deleteSession(id) ==
  /\ sessions' = St_deleteSession(sessions, id)
  /\ cronJobs' = FkCascade(backend, sessions, id, cronJobs)
  /\ cronRequests' = FkCascade(backend, sessions, id, cronRequests)
  /\ cronHistory' = HistoryCascade(backend, cronHistory, cronJobs')
  /\ last' = Result("deleteSession", "ok", id, "", "")
  /\ UNCHANGED <<backend, others, clock, sessionIdCounter, messages, messageIdCounter,
                 cronJobIdCounter, cronRequestIdCounter, tasks, taskIdCounter, inv, del, tx,
                 observed>>

\* ---------------------------------------------------------------- MessageService
RECURSIVE CreateMessages(_, _, _, _, _, _)
CreateMessages(M, counter, from, recipients, body, now) ==
  IF recipients = <<>> THEN M
  ELSE CreateMessages(St_createMessage(M, counter, from, Head(recipients), body, now),
                      counter + 1, from, Tail(recipients), body, now)

\* what AgentOfficeStorageBase.createMessage does after the insert: whether the message
\* is the latest of its sender to its recipient, and the memory model it leaves
IsLatest(state, from, to, at) ==
  \/ to \notin DOMAIN state
  \/ from \notin DOMAIN state[to]
  \/ at > state[to][from]
MailStateAfter(state, from, to, at) ==
  LET senderMap == IF to \in DOMAIN state THEN state[to] ELSE <<>>
  IN [r \in DOMAIN state \cup {to} |->
        IF r # to THEN state[r]
        ELSE IF ~IsLatest(state, from, to, at) THEN senderMap
        ELSE [x \in DOMAIN senderMap \cup {from} |-> IF x = from THEN at ELSE senderMap[x]]]

\* whether createMessage notifies the watchers: the in-memory storage after every
\* message, the others when the memory model has changed
Notifies(b, state, from, to, at) == b = "mock" \/ IsLatest(state, from, to, at)
\* the in-memory storage has no memory model
MemoryModel(b, state, from, to, at) ==
  IF b = "mock" THEN state ELSE MailStateAfter(state, from, to, at)

\* notifyListeners / notifyWatchers: every subscribed listener is called
Notify(I, L) == IF L = {} THEN I ELSE [n |-> 1 - I.n, called |-> L]

RECURSIVE MemoryModelAfterAll(_, _, _, _, _)
MemoryModelAfterAll(b, state, from, recipients, at) ==
  IF recipients = <<>> THEN state
  ELSE MemoryModelAfterAll(b, MemoryModel(b, state, from, Head(recipients), at), from,
                           Tail(recipients), at)
RECURSIVE AnyNotifies(_, _, _, _, _)
AnyNotifies(b, state, from, recipients, at) ==
  /\ recipients # <<>>
  /\ \/ Notifies(b, state, from, Head(recipients), at)
     \/ AnyNotifies(b, MemoryModel(b, state, from, Head(recipients), at), from,
                    Tail(recipients), at)

sendMessage(from, recipients, body) ==
  /\ messageIdCounter + Len(recipients) - 1 <= MaxMessages
  /\ messages' = CreateMessages(messages, messageIdCounter, from, recipients, body, clock)
  /\ messageIdCounter' = messageIdCounter + Len(recipients)
  /\ coworkerMailState' =
       MemoryModelAfterAll(backend, coworkerMailState, from, recipients, clock)
  /\ invoked' = IF AnyNotifies(backend, coworkerMailState, from, recipients, clock)
                  THEN Notify(invoked, listeners) ELSE invoked
  /\ last' = Result("sendMessage", "ok", messageIdCounter, from, "")
  /\ UNCHANGED <<backend, cli, initializing, delivered, cronHistory,
                 cronHistoryIdCounter, send, listeners, pending, initialized, clock,
                 sessions, sessionIdCounter, cronJobs,
                 cronJobIdCounter, cronRequests, cronRequestIdCounter, tasks,
                 taskIdCounter, inv, del, tx, observed>>

\* ---------------------------------------------------------------- watch
\* initializeState: every session gets an empty sender map, which the messages sent to
\* it then fill with the latest time per sender; a second call does nothing
InitializedState(S, M, state) ==
  LET names == {S[i].name : i \in DOMAIN S}
      from(r) == {M[j].from_name : j \in {k \in DOMAIN M : M[k].to_name = r}}
      latest(r, x) ==
        Max({M[j].created_at : j \in {k \in DOMAIN M : M[k].to_name = r /\ M[k].from_name = x}})
  IN [r \in DOMAIN state \cup names |->
        IF r \in names THEN [x \in from(r) |-> latest(r, x)] ELSE state[r]]

WatchFrame ==
  UNCHANGED <<backend, cli, initializing, delivered, cronHistory, cronHistoryIdCounter,
              send, clock, tables, inv, del, tx, observed>>

\* watch(listener): the listener is added; the storages that keep a memory model start
\* initializeState and call the listener once it has resolved
watch(listener) ==
  /\ listeners' = listeners \cup {listener}
  /\ IF backend = "mock"
       THEN UNCHANGED pending
       ELSE /\ pending[listener] < MaxPending
            /\ pending' = [pending EXCEPT ![listener] = @ + 1]
  /\ last' = Result("watch", "ok", 0, listener, "")
  /\ UNCHANGED <<invoked, coworkerMailState, initialized>>
  /\ WatchFrame

\* the function watch returned
unsubscribe(listener) ==
  /\ listener \in listeners
  /\ listeners' = listeners \ {listener}
  /\ last' = Result("unsubscribe", "ok", 0, listener, "")
  /\ UNCHANGED <<pending, invoked, coworkerMailState, initialized>>
  /\ WatchFrame

\* a first notification that does not ask whether the listener is still subscribed
watch_then_CallsAnyway(listener) ==
  /\ pending[listener] > 0
  /\ pending' = [pending EXCEPT ![listener] = @ - 1]
  /\ coworkerMailState' =
       IF initialized THEN coworkerMailState
       ELSE InitializedState(sessions, messages, coworkerMailState)
  /\ initialized' = TRUE
  /\ invoked' = Notify(invoked, {listener})
  /\ last' = Result("watch.then", "called", 0, listener, "")
  /\ UNCHANGED listeners
  /\ WatchFrame

\* this.initializeState().then(...): the first notification of a watch call
watch_then(listener) ==
  /\ pending[listener] > 0
  /\ pending' = [pending EXCEPT ![listener] = @ - 1]
  /\ coworkerMailState' =
       IF initialized THEN coworkerMailState
       ELSE InitializedState(sessions, messages, coworkerMailState)
  /\ initialized' = TRUE
  /\ IF listener \notin listeners
       THEN /\ UNCHANGED invoked
            /\ last' = Result("watch.then", "skipped", 0, listener, "")
       ELSE /\ invoked' = Notify(invoked, {listener})
            /\ last' = Result("watch.then", "called", 0, listener, "")
  /\ UNCHANGED listeners
  /\ WatchFrame

MailFrame ==
  UNCHANGED <<backend, others, cronHistory, clock, sessions, sessionIdCounter,
              messageIdCounter, cronJobs, cronJobIdCounter, cronRequests,
              cronRequestIdCounter, tasks, taskIdCounter, inv, del, tx, observed>>

markMessageAsRead(id) ==
  /\ messages' = St_markMessageAsRead(messages, id)
  /\ last' = Result("markMessageAsRead", IF id \in DOMAIN messages THEN "ok" ELSE "null",
                    id, "", "")
  /\ MailFrame

checkUnreadMail(coworkerName) ==
  /\ last' = Result("checkUnreadMail", "ok", 0, coworkerName,
                    Len(St_listMessagesForRecipient(messages, coworkerName, TRUE)) > 0)
  /\ UNCHANGED messages
  /\ MailFrame

RECURSIVE MarkEach(_, _)
MarkEach(M, ids) ==
  IF ids = <<>> THEN M ELSE MarkEach(St_markMessageAsRead(M, Head(ids)), Tail(ids))

\* a read that hands the unread messages over and leaves them unread
getUnreadMail_MarksNothing(coworkerName) ==
  /\ last' = Result("getUnreadMail", "ok", 0, coworkerName,
                    St_listMessagesForRecipient(messages, coworkerName, TRUE))
  /\ UNCHANGED messages
  /\ MailFrame

\* the unread messages are listed, each is marked, and the list is returned
getUnreadMail(coworkerName) ==
  /\ LET unreadMessages == St_listMessagesForRecipient(messages, coworkerName, TRUE)
     IN /\ messages' = MarkEach(messages, unreadMessages)
        /\ last' = Result("getUnreadMail", "ok", 0, coworkerName, unreadMessages)
  /\ MailFrame

\* ---------------------------------------------------------------- TaskService
validColumns == {"idea", "approved idea", "working on", "blocked", "ready for review", "done"}

createTask(title, description, assignee, column, dependencies) ==
  /\ IF column \notin validColumns
       THEN /\ last' = Result("createTask", "invalid_column", 0, "", column)
            /\ UNCHANGED <<tasks, taskIdCounter>>
       ELSE /\ taskIdCounter <= MaxTasks
            /\ tasks' = St_createTask(tasks, taskIdCounter, title, description, assignee,
                                      column, dependencies, clock)
            /\ taskIdCounter' = taskIdCounter + 1
            /\ last' = Result("createTask", "ok", taskIdCounter, "", column)
  /\ UNCHANGED <<backend, others, cronHistory,
                 clock, sessions, sessionIdCounter, messages, messageIdCounter,
                 cronJobs, cronJobIdCounter, cronRequests, cronRequestIdCounter, inv, del, tx,
                 observed>>

TaskFrame ==
  UNCHANGED <<backend, others, cronHistory,
              clock, sessions, sessionIdCounter, messages, messageIdCounter,
              cronJobs, cronJobIdCounter, cronRequests, cronRequestIdCounter, taskIdCounter,
              inv, del, tx, observed>>

\* `if (updates.column)`: a column that is undefined or the empty string is not validated
ColumnRefused(updates) ==
  /\ "column" \in DOMAIN updates
  /\ Truthy(updates.column)
  /\ updates.column \notin validColumns

\* TaskService.updateTask, called as updateTask or from assignTask, unassignTask, moveTask
TaskService_updateTask(op, id, updates, detail) ==
  /\ IF id \notin DOMAIN tasks
       THEN last' = Result(op, "not_found", id, "", detail) /\ UNCHANGED tasks
     ELSE IF ColumnRefused(updates)
       THEN last' = Result(op, "invalid_column", id, "", detail) /\ UNCHANGED tasks
     ELSE IF St_updateTaskThrows(backend, updates)
       THEN last' = Result(op, "storage_error", id, "", detail) /\ UNCHANGED tasks
     ELSE /\ tasks' = St_updateTask(backend, tasks, id, updates, clock)
          /\ last' = Result(op, "ok", id, "", detail)
  /\ TaskFrame

updateTask(id, updates) == TaskService_updateTask("updateTask", id, updates, "")
assignTask(id, assignee) ==
  TaskService_updateTask("assignTask", id, [assignee |-> assignee], "")
unassignTask(id) == TaskService_updateTask("unassignTask", id, [assignee |-> NULL], "")

deleteTask(id) ==
  /\ IF id \notin DOMAIN tasks
       THEN last' = Result("deleteTask", "not_found", id, "", "") /\ UNCHANGED tasks
       ELSE /\ tasks' = St_deleteTask(tasks, id)
            /\ last' = Result("deleteTask", "ok", id, "", "")
  /\ TaskFrame

\* TaskService.searchTasks: the storage call and nothing else
searchTasks(query, assignee, column) ==
  /\ last' = Result("searchTasks", "ok", 0, "",
                    [query |-> query, assignee |-> assignee, column |-> column,
                     ids |-> St_searchTasks(backend, tasks, query, assignee, column)])
  /\ UNCHANGED tasks
  /\ TaskFrame

\* a move that does not compare the target with the column the task is in
moveTask_NoSameColumnCheck(id, newColumn) ==
  IF newColumn \notin validColumns
    THEN last' = Result("moveTask", "invalid_column", id, "", newColumn)
         /\ UNCHANGED tasks /\ TaskFrame
    ELSE TaskService_updateTask("moveTask", id, [column |-> newColumn], newColumn)

moveTask(id, newColumn) ==
  IF newColumn \notin validColumns
    THEN last' = Result("moveTask", "invalid_column", id, "", newColumn)
         /\ UNCHANGED tasks /\ TaskFrame
  ELSE IF id \notin DOMAIN tasks
    THEN last' = Result("moveTask", "not_found", id, "", newColumn)
         /\ UNCHANGED tasks /\ TaskFrame
  ELSE IF tasks[id].column = newColumn
    THEN last' = Result("moveTask", "already_in_column", id, "", newColumn)
         /\ UNCHANGED tasks /\ TaskFrame
  ELSE TaskService_updateTask("moveTask", id, [column |-> newColumn], newColumn)

\* the six columns in the order getColumnStats lists them
ColumnOrder == <<"idea", "approved idea", "working on", "blocked", "ready for review", "done">>

\* the counts are kept per column name met, and read for the six
getColumnStats(T) ==
  [k \in 1 .. Len(ColumnOrder) |->
     [column |-> ColumnOrder[k],
      count |-> Cardinality({i \in DOMAIN T : T[i].column = ColumnOrder[k]})]]

\* ---------------------------------------------------------------- CronService: jobs
\* a create that does not look for an existing job of the pair
createCronJob_NoExistsCheck(name, coworkerName, schedule, timezone, message) ==
  /\ IF ~sessionExists(sessions, coworkerName)
       THEN /\ last' = Result("createCronJob", "not_found", 0, coworkerName, name)
            /\ UNCHANGED <<cronJobs, cronJobIdCounter>>
     ELSE IF CronJobInsertRefused(backend, sessions, cronJobs, name, coworkerName)
       THEN /\ last' = Result("createCronJob", "storage_error", 0, coworkerName, name)
            /\ UNCHANGED <<cronJobs, cronJobIdCounter>>
     ELSE /\ cronJobIdCounter <= MaxCronJobs
          /\ cronJobs' = St_createCronJob(cronJobs, cronJobIdCounter, name, coworkerName,
                                          schedule, timezone, message, clock)
          /\ cronJobIdCounter' = cronJobIdCounter + 1
          /\ last' = Result("createCronJob", "ok", cronJobIdCounter, coworkerName, name)
  /\ UNCHANGED <<backend, others, cronHistory,
                 clock, sessions, sessionIdCounter, messages, messageIdCounter,
                 cronRequests, cronRequestIdCounter, tasks, taskIdCounter, inv, del, tx,
                 observed>>

\* a create that does not look for the coworker
createCronJob_NoCoworkerCheck(name, coworkerName, schedule, timezone, message) ==
  /\ IF cronJobExistsForSession(cronJobs, name, coworkerName)
       THEN /\ last' = Result("createCronJob", "already_exists", 0, coworkerName, name)
            /\ UNCHANGED <<cronJobs, cronJobIdCounter>>
     ELSE IF CronJobInsertRefused(backend, sessions, cronJobs, name, coworkerName)
       THEN /\ last' = Result("createCronJob", "storage_error", 0, coworkerName, name)
            /\ UNCHANGED <<cronJobs, cronJobIdCounter>>
     ELSE /\ cronJobIdCounter <= MaxCronJobs
          /\ cronJobs' = St_createCronJob(cronJobs, cronJobIdCounter, name, coworkerName,
                                          schedule, timezone, message, clock)
          /\ cronJobIdCounter' = cronJobIdCounter + 1
          /\ last' = Result("createCronJob", "ok", cronJobIdCounter, coworkerName, name)
  /\ UNCHANGED <<backend, others, cronHistory,
                 clock, sessions, sessionIdCounter, messages, messageIdCounter,
                 cronRequests, cronRequestIdCounter, tasks, taskIdCounter, inv, del, tx,
                 observed>>

createCronJob(name, coworkerName, schedule, timezone, message) ==
  /\ IF ~sessionExists(sessions, coworkerName)
       THEN /\ last' = Result("createCronJob", "not_found", 0, coworkerName, name)
            /\ UNCHANGED <<cronJobs, cronJobIdCounter>>
     ELSE IF cronJobExistsForSession(cronJobs, name, coworkerName)
       THEN /\ last' = Result("createCronJob", "already_exists", 0, coworkerName, name)
            /\ UNCHANGED <<cronJobs, cronJobIdCounter>>
     ELSE IF CronJobInsertRefused(backend, sessions, cronJobs, name, coworkerName)
       THEN /\ last' = Result("createCronJob", "storage_error", 0, coworkerName, name)
            /\ UNCHANGED <<cronJobs, cronJobIdCounter>>
     ELSE /\ cronJobIdCounter <= MaxCronJobs
          /\ cronJobs' = St_createCronJob(cronJobs, cronJobIdCounter, name, coworkerName,
                                          schedule, timezone, message, clock)
          /\ cronJobIdCounter' = cronJobIdCounter + 1
          /\ last' = Result("createCronJob", "ok", cronJobIdCounter, coworkerName, name)
  /\ UNCHANGED <<backend, others, cronHistory,
                 clock, sessions, sessionIdCounter, messages, messageIdCounter,
                 cronRequests, cronRequestIdCounter, tasks, taskIdCounter, inv, del, tx,
                 observed>>

\* storage.createCronHistory, which the scheduler calls after a run
createCronHistory(cronJobId, executedAt, success, errorMessage) ==
  /\ IF CronHistoryInsertRefused(backend, cronJobs, cronJobId)
       THEN /\ last' = Result("createCronHistory", "storage_error", 0, "", cronJobId)
            /\ UNCHANGED <<cronHistory, cronHistoryIdCounter>>
       ELSE /\ cronHistoryIdCounter <= MaxHistory
            /\ cronHistory' = St_createCronHistory(cronHistory, cronHistoryIdCounter,
                                 cronJobId, executedAt, success, errorMessage)
            /\ cronHistoryIdCounter' = cronHistoryIdCounter + 1
            /\ last' = Result("createCronHistory", "ok", cronHistoryIdCounter, "", cronJobId)
  /\ UNCHANGED <<backend, cli, initializing, delivered, clock, tables, inv, del, tx,
                 observed, send, listeners, pending, invoked, coworkerMailState,
                 initialized>>

\* a history that lists the oldest entries first
getCronHistory_OldestFirst(cronJobId, limit) ==
  /\ last' = Result("getCronHistory", "ok", cronJobId, "",
                    [limit |-> limit,
                     ids |-> Slice(SortIds({i \in DOMAIN cronHistory :
                                              cronHistory[i].cron_job_id = cronJobId},
                                           [i \in DOMAIN cronHistory |->
                                              cronHistory[i].executed_at]),
                                   limit)])
  /\ UNCHANGED <<backend, others, cronHistory, clock, tables, inv, del, tx, observed>>

\* CronService.getCronHistory: the storage call and nothing else
getCronHistory(cronJobId, limit) ==
  /\ last' = Result("getCronHistory", "ok", cronJobId, "",
                    [limit |-> limit,
                     ids |-> St_listCronHistory(cronHistory, cronJobId, limit)])
  /\ UNCHANGED <<backend, others, cronHistory, clock, tables, inv, del, tx, observed>>

deleteCronJob(id) ==
  /\ IF id \notin DOMAIN cronJobs
       THEN /\ last' = Result("deleteCronJob", "not_found", id, "", "")
            /\ UNCHANGED cronJobs
       ELSE /\ cronJobs' = St_deleteCronJob(cronJobs, id)
            /\ last' = Result("deleteCronJob", "ok", id, "", "")
  /\ cronHistory' = HistoryCascade(backend, cronHistory, cronJobs')
  /\ UNCHANGED <<backend, others, clock, sessions, sessionIdCounter, messages, messageIdCounter,
                 cronJobIdCounter, cronRequests, cronRequestIdCounter, tasks, taskIdCounter,
                 inv, del, tx, observed>>

\* ---------------------------------------------------------------- deleteCoworker, run alone
RECURSIVE DeleteEach(_, _)
DeleteEach(X, ids) ==
  IF ids = <<>> THEN X ELSE DeleteEach(Remove(X, Head(ids)), Tail(ids))

RECURSIVE UnassignEach(_, _, _)
UnassignEach(T, ids, now) ==
  IF ids = <<>> THEN T
  ELSE UnassignEach(St_updateTaskAssignee(T, Head(ids), NULL, now), Tail(ids), now)

\* a cascade that deletes the messages the coworker sent and forgets those it received
deleteCoworker_SentMessagesOnly(name) ==
  /\ IF ~sessionExists(sessions, name)
       THEN /\ last' = Result("deleteCoworker", "not_found", 0, name, "")
            /\ UNCHANGED <<sessions, messages, cronJobs, cronRequests, tasks>>
     ELSE IF /\ St_updateTaskThrows(backend, [assignee |-> NULL])
             /\ St_searchTasks(backend, tasks, <<>>, name, UNDEFINED) # <<>>
       \* tx.updateTask throws and the transaction is rolled back
       THEN /\ last' = Result("deleteCoworker", "storage_error", 0, name, "updateTask")
            /\ UNCHANGED <<sessions, messages, cronJobs, cronRequests, tasks>>
       ELSE LET id == getSessionIdByName(sessions, name)
                J == DeleteEach(cronJobs, St_listCronJobsForSession(cronJobs, name))
                R == DeleteEach(cronRequests,
                                St_listCronRequests(cronRequests, UNDEFINED, name))
            IN /\ messages' = [i \in {j \in DOMAIN messages : messages[j].from_name # name}
                                 |-> messages[i]]
               /\ cronJobs' = FkCascade(backend, sessions, id, J)
               /\ cronRequests' = FkCascade(backend, sessions, id, R)
               /\ tasks' = UnassignEach(tasks,
                              St_searchTasks(backend, tasks, <<>>, name, UNDEFINED), clock)
               /\ sessions' = St_deleteSession(sessions, id)
               /\ last' = Result("deleteCoworker", "ok", id, name, "")
  /\ cronHistory' = HistoryCascade(backend, cronHistory, cronJobs')
  /\ UNCHANGED <<backend, others, clock, sessionIdCounter, messageIdCounter, cronJobIdCounter,
                 cronRequestIdCounter, taskIdCounter, inv, del, tx, observed>>

\* a cascade that empties the messages table
deleteCoworker_AllMessages(name) ==
  /\ IF ~sessionExists(sessions, name)
       THEN /\ last' = Result("deleteCoworker", "not_found", 0, name, "")
            /\ UNCHANGED <<sessions, messages, cronJobs, cronRequests, tasks>>
     ELSE IF /\ St_updateTaskThrows(backend, [assignee |-> NULL])
             /\ St_searchTasks(backend, tasks, <<>>, name, UNDEFINED) # <<>>
       THEN /\ last' = Result("deleteCoworker", "storage_error", 0, name, "updateTask")
            /\ UNCHANGED <<sessions, messages, cronJobs, cronRequests, tasks>>
       ELSE LET id == getSessionIdByName(sessions, name)
                J == DeleteEach(cronJobs, St_listCronJobsForSession(cronJobs, name))
                R == DeleteEach(cronRequests,
                                St_listCronRequests(cronRequests, UNDEFINED, name))
            IN /\ messages' = <<>>
               /\ cronJobs' = FkCascade(backend, sessions, id, J)
               /\ cronRequests' = FkCascade(backend, sessions, id, R)
               /\ tasks' = UnassignEach(tasks,
                              St_searchTasks(backend, tasks, <<>>, name, UNDEFINED), clock)
               /\ sessions' = St_deleteSession(sessions, id)
               /\ last' = Result("deleteCoworker", "ok", id, name, "")
  /\ cronHistory' = HistoryCascade(backend, cronHistory, cronJobs')
  /\ UNCHANGED <<backend, others, clock, sessionIdCounter, messageIdCounter, cronJobIdCounter,
                 cronRequestIdCounter, taskIdCounter, inv, del, tx, observed>>

deleteCoworker(name) ==
  /\ IF ~sessionExists(sessions, name)
       THEN /\ last' = Result("deleteCoworker", "not_found", 0, name, "")
            /\ UNCHANGED <<sessions, messages, cronJobs, cronRequests, tasks>>
     ELSE IF /\ St_updateTaskThrows(backend, [assignee |-> NULL])
             /\ St_searchTasks(backend, tasks, <<>>, name, UNDEFINED) # <<>>
       \* tx.updateTask throws and the transaction is rolled back
       THEN /\ last' = Result("deleteCoworker", "storage_error", 0, name, "updateTask")
            /\ UNCHANGED <<sessions, messages, cronJobs, cronRequests, tasks>>
       ELSE LET id == getSessionIdByName(sessions, name)
                J == DeleteEach(cronJobs, St_listCronJobsForSession(cronJobs, name))
                R == DeleteEach(cronRequests,
                                St_listCronRequests(cronRequests, UNDEFINED, name))
            IN /\ messages' = St_deleteMessagesForCoworker(messages, name)
               /\ cronJobs' = FkCascade(backend, sessions, id, J)
               /\ cronRequests' = FkCascade(backend, sessions, id, R)
               /\ tasks' = UnassignEach(tasks,
                              St_searchTasks(backend, tasks, <<>>, name, UNDEFINED), clock)
               /\ sessions' = St_deleteSession(sessions, id)
               /\ last' = Result("deleteCoworker", "ok", id, name, "")
  /\ cronHistory' = HistoryCascade(backend, cronHistory, cronJobs')
  /\ UNCHANGED <<backend, others, clock, sessionIdCounter, messageIdCounter, cronJobIdCounter,
                 cronRequestIdCounter, taskIdCounter, inv, del, tx, observed>>

\* ---------------------------------------------------------------- CronService: requests
\* the requests as CronRequestInfo rows, which leave out the review fields
CronRequestInfo(r) ==
  [id |-> r.id, name |-> r.name, session_name |-> r.session_name, schedule |-> r.schedule,
   timezone |-> r.timezone, message |-> r.message, status |-> r.status,
   requested_at |-> r.requested_at]

\* a listing that drops the status filter
listCronRequests_IgnoresStatus(status, coworkerName) ==
  /\ LET sessionName == IF Truthy(coworkerName) THEN coworkerName ELSE UNDEFINED
         ids == St_listCronRequests(cronRequests, UNDEFINED, sessionName)
     IN last' = Result("listCronRequests", "ok", 0, "",
                       [status |-> status, coworkerName |-> coworkerName,
                        rows |-> [k \in DOMAIN ids |-> CronRequestInfo(cronRequests[ids[k]])]])
  /\ UNCHANGED <<backend, others, cronHistory, clock, tables, inv, del, tx, observed>>

\* filters?.coworkerName ? {...filters, sessionName: filters.coworkerName} : filters
listCronRequests(status, coworkerName) ==
  /\ LET sessionName == IF Truthy(coworkerName) THEN coworkerName ELSE UNDEFINED
         ids == St_listCronRequests(cronRequests, status, sessionName)
     IN last' = Result("listCronRequests", "ok", 0, "",
                       [status |-> status, coworkerName |-> coworkerName,
                        rows |-> [k \in DOMAIN ids |-> CronRequestInfo(cronRequests[ids[k]])]])
  /\ UNCHANGED <<backend, others, cronHistory, clock, tables, inv, del, tx, observed>>

\* a request refused while another of the same name and coworker is pending
createCronRequest_OnePendingPerName(name, coworkerName, schedule, timezone, message) ==
  /\ IF ~sessionExists(sessions, coworkerName)
       THEN /\ last' = Result("createCronRequest", "not_found", 0, coworkerName, "")
            /\ UNCHANGED <<cronRequests, cronRequestIdCounter>>
     ELSE IF \E i \in DOMAIN cronRequests :
                /\ cronRequests[i].name = name
                /\ cronRequests[i].session_name = coworkerName
                /\ cronRequests[i].status = "pending"
       THEN /\ last' = Result("createCronRequest", "already_exists", 0, coworkerName, "")
            /\ UNCHANGED <<cronRequests, cronRequestIdCounter>>
       ELSE /\ cronRequestIdCounter <= MaxCronRequests
            /\ cronRequests' = St_createCronRequest(cronRequests, cronRequestIdCounter, name,
                                  coworkerName, schedule, timezone, message, clock)
            /\ cronRequestIdCounter' = cronRequestIdCounter + 1
            /\ last' = Result("createCronRequest", "ok", cronRequestIdCounter, coworkerName,
                              "pending")
  /\ UNCHANGED <<backend, others, cronHistory,
                 clock, sessions, sessionIdCounter, messages, messageIdCounter,
                 cronJobs, cronJobIdCounter, tasks, taskIdCounter, inv, del, tx, observed>>

createCronRequest(name, coworkerName, schedule, timezone, message) ==
  /\ IF ~sessionExists(sessions, coworkerName)
       THEN /\ last' = Result("createCronRequest", "not_found", 0, coworkerName, "")
            /\ UNCHANGED <<cronRequests, cronRequestIdCounter>>
       ELSE /\ cronRequestIdCounter <= MaxCronRequests
            /\ cronRequests' = St_createCronRequest(cronRequests, cronRequestIdCounter, name,
                                  coworkerName, schedule, timezone, message, clock)
            /\ cronRequestIdCounter' = cronRequestIdCounter + 1
            /\ last' = Result("createCronRequest", "ok", cronRequestIdCounter, coworkerName,
                              "pending")
  /\ UNCHANGED <<backend, others, cronHistory,
                 clock, sessions, sessionIdCounter, messages, messageIdCounter,
                 cronJobs, cronJobIdCounter, tasks, taskIdCounter, inv, del, tx, observed>>

\* a review that does not look at the current status
reviewCronRequest_NoStatusCheck(op, status, id, reviewedBy, reviewerNotes) ==
  /\ IF id \notin DOMAIN cronRequests
       THEN /\ last' = Result(op, "not_found", id, "", "")
            /\ UNCHANGED cronRequests
       ELSE /\ cronRequests' = St_updateCronRequestStatus(cronRequests, id, status,
                                  reviewedBy, reviewerNotes, clock)
            /\ last' = Result(op, "ok", id, "", status)
  /\ UNCHANGED <<backend, others, cronHistory,
                 clock, sessions, sessionIdCounter, messages, messageIdCounter,
                 cronJobs, cronJobIdCounter, cronRequestIdCounter, tasks, taskIdCounter,
                 inv, del, tx, observed>>

\* a review that writes first and looks at the status it read afterwards
reviewCronRequest_WriteThenCheck(op, status, id, reviewedBy, reviewerNotes) ==
  /\ IF id \notin DOMAIN cronRequests
       THEN /\ last' = Result(op, "not_found", id, "", "")
            /\ UNCHANGED cronRequests
       ELSE /\ cronRequests' = St_updateCronRequestStatus(cronRequests, id, status,
                                  reviewedBy, reviewerNotes, clock)
            /\ last' = IF cronRequests[id].status # "pending"
                         THEN Result(op, "invalid_state", id, "", cronRequests[id].status)
                         ELSE Result(op, "ok", id, "", status)
  /\ UNCHANGED <<backend, others, cronHistory,
                 clock, sessions, sessionIdCounter, messages, messageIdCounter,
                 cronJobs, cronJobIdCounter, cronRequestIdCounter, tasks, taskIdCounter,
                 inv, del, tx, observed>>

\* an approval that also schedules the job it approves
reviewCronRequest_CreatesJob(op, status, id, reviewedBy, reviewerNotes) ==
  /\ IF id \notin DOMAIN cronRequests
       THEN /\ last' = Result(op, "not_found", id, "", "")
            /\ UNCHANGED <<cronRequests, cronJobs, cronJobIdCounter>>
       ELSE IF cronRequests[id].status # "pending"
         THEN /\ last' = Result(op, "invalid_state", id, "", cronRequests[id].status)
              /\ UNCHANGED <<cronRequests, cronJobs, cronJobIdCounter>>
         ELSE /\ cronRequests' = St_updateCronRequestStatus(cronRequests, id, status,
                                    reviewedBy, reviewerNotes, clock)
              /\ IF status = "approved" /\ cronJobIdCounter <= MaxCronJobs
                   THEN /\ cronJobs' = St_createCronJob(cronJobs, cronJobIdCounter,
                                          cronRequests[id].name, cronRequests[id].session_name,
                                          cronRequests[id].schedule, cronRequests[id].timezone,
                                          cronRequests[id].message, clock)
                        /\ cronJobIdCounter' = cronJobIdCounter + 1
                   ELSE UNCHANGED <<cronJobs, cronJobIdCounter>>
              /\ last' = Result(op, "ok", id, "", status)
  /\ UNCHANGED <<backend, others, cronHistory,
                 clock, sessions, sessionIdCounter, messages, messageIdCounter,
                 cronRequestIdCounter, tasks, taskIdCounter, inv, del, tx, observed>>

\* approveCronRequest / rejectCronRequest differ in the status written and in the
\* wording of the errors only.
reviewCronRequest(op, status, id, reviewedBy, reviewerNotes) ==
  /\ IF id \notin DOMAIN cronRequests
       THEN /\ last' = Result(op, "not_found", id, "", "")
            /\ UNCHANGED cronRequests
       ELSE IF cronRequests[id].status # "pending"
         THEN \* "Cannot approve cron request <id>: status is <status>, expected pending"
              /\ last' = Result(op, "invalid_state", id, "", cronRequests[id].status)
              /\ UNCHANGED cronRequests
         ELSE /\ cronRequests' = St_updateCronRequestStatus(cronRequests, id, status,
                                    reviewedBy, reviewerNotes, clock)
              /\ last' = Result(op, "ok", id, "", status)
  /\ UNCHANGED <<backend, others, cronHistory,
                 clock, sessions, sessionIdCounter, messages, messageIdCounter,
                 cronJobs, cronJobIdCounter, cronRequestIdCounter, tasks, taskIdCounter,
                 inv, del, tx, observed>>

approveCronRequest(id, reviewedBy, reviewerNotes) ==
  reviewCronRequest("approveCronRequest", "approved", id, reviewedBy, reviewerNotes)

rejectCronRequest(id, reviewedBy, reviewerNotes) ==
  reviewCronRequest("rejectCronRequest", "rejected", id, reviewedBy, reviewerNotes)

\* a delete that refuses a request already reviewed
deleteCronRequest_PendingOnly(id) ==
  /\ IF id \notin DOMAIN cronRequests
       THEN /\ last' = Result("deleteCronRequest", "not_found", id, "", "")
            /\ UNCHANGED cronRequests
     ELSE IF cronRequests[id].status # "pending"
       THEN /\ last' = Result("deleteCronRequest", "invalid_state", id, "", "")
            /\ UNCHANGED cronRequests
       ELSE /\ cronRequests' = St_deleteCronRequest(cronRequests, id)
            /\ last' = Result("deleteCronRequest", "ok", id, "", "")
  /\ UNCHANGED <<backend, others, cronHistory,
                 clock, sessions, sessionIdCounter, messages, messageIdCounter,
                 cronJobs, cronJobIdCounter, cronRequestIdCounter, tasks, taskIdCounter,
                 inv, del, tx, observed>>

deleteCronRequest(id) ==
  /\ IF id \notin DOMAIN cronRequests
       THEN /\ last' = Result("deleteCronRequest", "not_found", id, "", "")
            /\ UNCHANGED cronRequests
       ELSE /\ cronRequests' = St_deleteCronRequest(cronRequests, id)
            /\ last' = Result("deleteCronRequest", "ok", id, "", "")
  /\ UNCHANGED <<backend, others, cronHistory,
                 clock, sessions, sessionIdCounter, messages, messageIdCounter,
                 cronJobs, cronJobIdCounter, cronRequestIdCounter, tasks, taskIdCounter,
                 inv, del, tx, observed>>

\* ---------------------------------------------------------------- the request workflow
RequestIds == 1 .. (MaxOwned + 1)
\* one request at most where the requests themselves are not the subject
FewRequests(c) == sessionExists(sessions, c) => cronRequestIdCounter <= MaxOwned
Requesters == {"alice"}

CreateRequester == \E n \in Requesters, t \in CoworkerTypes : createSession(n, t)
CreateCronRequest ==
  \E c \in Requesters, m \in Messages :
     FewRequests(c) /\ createCronRequest("standup", c, At0300, NULL, m)
ApproveCronRequest ==
  \E id \in RequestIds, r \in Reviewers, n \in ReviewerNotes : approveCronRequest(id, r, n)
RejectCronRequest ==
  \E id \in RequestIds, r \in Reviewers, n \in ReviewerNotes : rejectCronRequest(id, r, n)
DeleteCronRequest == \E id \in RequestIds : deleteCronRequest(id)

Next ==
  \/ Tick
  \/ CreateRequester
  \/ CreateCronRequest
  \/ ApproveCronRequest
  \/ RejectCronRequest
  \/ DeleteCronRequest

Spec == Init /\ [][Next]_vars

\* ---------------------------------------------------------------- request workflow: properties
Terminal == {"approved", "rejected"}
ReviewOf(id) ==
  \E r \in Reviewers, n \in ReviewerNotes :
     approveCronRequest(id, r, n) \/ rejectCronRequest(id, r, n)

\* C1: the status of a cron request that exists before and after a step changes only
\* from pending to approved or from pending to rejected; an approved request stays
\* approved and a rejected one stays rejected, whoever reviews and with whatever notes.
C1_StatusTransitions ==
  [][\A id \in DOMAIN cronRequests \cap DOMAIN cronRequests' :
        cronRequests'[id].status # cronRequests[id].status
          => /\ cronRequests[id].status = "pending"
             /\ cronRequests'[id].status \in Terminal]_vars

\* an approved request that a later reject was tried on
C1_Witness ==
  \E id \in DOMAIN cronRequests :
     /\ cronRequests[id].status = "approved"
     /\ last.op = "rejectCronRequest" /\ last.id = id /\ last.outcome = "invalid_state"

\* C3: approve or reject on a request that is already approved or rejected fails with
\* an error that names the current status, and leaves status, reviewed_by, reviewed_at
\* and reviewer_notes as the first review set them.
C3_ReviewOfTerminalFails ==
  [][\A id \in DOMAIN cronRequests :
        (cronRequests[id].status \in Terminal /\ ReviewOf(id))
          => /\ last'.outcome = "invalid_state"
             /\ last'.detail = cronRequests[id].status
             /\ cronRequests'[id].status = cronRequests[id].status
             /\ cronRequests'[id].reviewed_by = cronRequests[id].reviewed_by
             /\ cronRequests'[id].reviewed_at = cronRequests[id].reviewed_at
             /\ cronRequests'[id].reviewer_notes = cronRequests[id].reviewer_notes]_vars

\* a rejected request, reviewed at an earlier instant with notes, that an approve by
\* someone was then tried on
C3_Witness ==
  \E id \in DOMAIN cronRequests :
     /\ cronRequests[id].status = "rejected"
     /\ cronRequests[id].reviewer_notes = "lgtm"
     /\ cronRequests[id].reviewed_at < clock
     /\ last.op = "approveCronRequest" /\ last.id = id
     /\ last.outcome = "invalid_state" /\ last.detail = "rejected"

\* the review fields of a pending request are unset, and a reviewed request has its
\* reviewer and its review time
ReviewFieldsFollowStatus ==
  \A id \in DOMAIN cronRequests :
     LET r == cronRequests[id]
     IN /\ r.status \in {"pending"} \cup Terminal
        /\ r.status = "pending" =>
              r.reviewed_at = NoDate /\ r.reviewed_by = NULL /\ r.reviewer_notes = NULL
        /\ r.status \in Terminal => r.reviewed_at # NoDate /\ r.reviewed_by # NULL

\* a review that succeeds stores its reviewer and the time of the call, and no step
\* changes the reviewer or the review time of a reviewed request
ReviewIsKept ==
  /\ \A id \in DOMAIN cronRequests, r \in Reviewers, n \in ReviewerNotes :
        (/\ last'.outcome = "ok"
         /\ approveCronRequest(id, r, n) \/ rejectCronRequest(id, r, n))
          => /\ cronRequests[id].status = "pending"
             /\ cronRequests'[id].reviewed_by = r
             /\ cronRequests'[id].reviewed_at = clock
  /\ \A id \in DOMAIN cronRequests \cap DOMAIN cronRequests' :
        cronRequests[id].status \in Terminal
          => /\ cronRequests'[id].reviewed_by = cronRequests[id].reviewed_by
             /\ cronRequests'[id].reviewed_at = cronRequests[id].reviewed_at

\* C34: in every reachable state a cron request has reviewed_at, reviewed_by and
\* reviewer_notes all unset exactly when its status is pending; once it is approved or
\* rejected, reviewed_by and reviewed_at are those of the single successful review and
\* never change afterwards.
C34_ReviewFieldsMatchStatus == []ReviewFieldsFollowStatus /\ [][ReviewIsKept]_vars

\* a request approved by bob without notes at an earlier instant, that carol then
\* tried to reject
C34_Witness ==
  \E id \in DOMAIN cronRequests :
     /\ cronRequests[id].status = "approved"
     /\ cronRequests[id].reviewed_by = "bob"
     /\ cronRequests[id].reviewer_notes = NULL
     /\ cronRequests[id].reviewed_at < clock
     /\ last.op = "rejectCronRequest" /\ last.id = id /\ last.outcome = "invalid_state"

\* ---------------------------------------------------------------- racing reviews
\* approveCronRequest / rejectCronRequest, one store access per step.
ReviewOps == {"approveCronRequest", "rejectCronRequest"}
ReviewStatus(op) == IF op = "approveCronRequest" THEN "approved" ELSE "rejected"

review_call(p, op, id, reviewedBy, reviewerNotes) ==
  /\ inv[p].pc = "idle"
  /\ inv' = [inv EXCEPT ![p] = [NoInv EXCEPT !.op = op, !.pc = "getCronRequestById",
                                           !.id = id, !.by = reviewedBy,
                                           !.notes = reviewerNotes]]
  /\ UNCHANGED <<backend, others, cronHistory, clock, tables, del, tx, observed, last>>

\* const request = await this.storage.getCronRequestById(id), and the two checks on it
review_getCronRequestById(p) ==
  /\ inv[p].pc = "getCronRequestById"
  /\ inv' = [inv EXCEPT ![p] =
       IF inv[p].id \notin DOMAIN cronRequests
         THEN [@ EXCEPT !.pc = "done", !.outcome = "not_found"]
       ELSE IF cronRequests[inv[p].id].status # "pending"
         THEN [@ EXCEPT !.pc = "done", !.outcome = "invalid_state",
                        !.read = cronRequests[inv[p].id].status]
         ELSE [@ EXCEPT !.pc = "updateCronRequestStatus", !.read = "pending"]]
  /\ UNCHANGED <<backend, others, cronHistory, clock, tables, del, tx, observed, last>>

\* const updated = await this.storage.updateCronRequestStatus(...), and the check on it
review_updateCronRequestStatus(p) ==
  /\ inv[p].pc = "updateCronRequestStatus"
  /\ cronRequests' = St_updateCronRequestStatus(cronRequests, inv[p].id,
                        ReviewStatus(inv[p].op), inv[p].by, inv[p].notes, clock)
  /\ inv' = [inv EXCEPT ![p] =
       [@ EXCEPT !.pc = "done",
                 !.outcome = IF inv[p].id \in DOMAIN cronRequests THEN "ok" ELSE "failed"]]
  /\ last' = Result(inv[p].op, inv'[p].outcome, inv[p].id, "", ReviewStatus(inv[p].op))
  /\ UNCHANGED <<backend, others, cronHistory,
                 clock, sessions, sessionIdCounter, messages, messageIdCounter,
                 cronJobs, cronJobIdCounter, cronRequestIdCounter, tasks, taskIdCounter,
                 del, tx, observed>>

ReviewCall ==
  \E p \in Procs, op \in ReviewOps, id \in RequestIds, r \in Reviewers, n \in ReviewerNotes :
     review_call(p, op, id, r, n)
ReviewRead == \E p \in Procs : review_getCronRequestById(p)
ReviewWrite == \E p \in Procs : review_updateCronRequestStatus(p)

NextReviewRace ==
  \/ Idle /\ CreateRequester
  \/ Idle /\ CreateCronRequest
  \/ Tick
  \/ ReviewCall
  \/ ReviewRead
  \/ ReviewWrite

SpecReviewRace == Init /\ [][NextReviewRace]_vars

\* both invocations have returned, and both were reviews of the request id
BothReviewed(id) ==
  \A p \in Procs : inv[p].pc = "done" /\ inv[p].op \in ReviewOps /\ inv[p].id = id

\* C2: of two concurrent reviews of the same pending request exactly one succeeds and
\* the other fails with the invalid-state error; the stored reviewer is the one whose
\* call succeeded.
C2_ExactlyOneReviewSucceeds ==
  \A id \in DOMAIN cronRequests :
     BothReviewed(id) =>
       \E p \in Procs :
          /\ inv[p].outcome = "ok"
          /\ \A q \in Procs \ {p} : inv[q].outcome = "invalid_state"
          /\ cronRequests[id].reviewed_by = inv[p].by
          /\ cronRequests[id].status = ReviewStatus(inv[p].op)

\* ---------------------------------------------------------------- the cron job registry
JobIds == 1 .. (MaxCronJobs + 1)

CreateCoworker == \E n \in CoworkerNames, t \in CoworkerTypes : createSession(n, t)
CreateCronJob ==
  \E n \in CronNames, c \in CoworkerNames, m \in Messages :
     createCronJob(n, c, At0300, NULL, m)
DeleteCronJob == \E id \in JobIds : deleteCronJob(id)
DeleteCoworker == \E n \in CoworkerNames : deleteCoworker(n)

NextCronJobs ==
  \/ CreateCoworker
  \/ CreateCronJob
  \/ DeleteCronJob
  \/ DeleteCoworker

SpecCronJobs == Init /\ [][NextCronJobs]_vars

UniquePairs(J) ==
  \A i, j \in DOMAIN J :
     (J[i].name = J[j].name /\ J[i].session_name = J[j].session_name) => i = j

\* C4: after any sequence of createCronJob, deleteCronJob and deleteCoworker at most one
\* cron job exists per (name, coworker); a create for a pair that has a job fails with
\* the already-exists error and stores nothing; a create for a pair that has none, be it
\* a name used under another coworker or a pair whose job was deleted, succeeds.
C4_OneJobPerPair ==
  [][/\ UniquePairs(cronJobs')
     /\ \A n \in CronNames, c \in CoworkerNames, m \in Messages :
          createCronJob(n, c, At0300, NULL, m) =>
            IF cronJobExistsForSession(cronJobs, n, c)
              THEN last'.outcome = "already_exists" /\ cronJobs' = cronJobs
              ELSE sessionExists(sessions, c) =>
                     /\ last'.outcome = "ok"
                     /\ cronJobExistsForSession(cronJobs', n, c)]_vars

\* a pair that got a job again after its first job was deleted, the name being in use
\* under the other coworker too, and a further create for the pair refused
C4_Witness ==
  /\ 1 \notin DOMAIN cronJobs
  /\ \E i, j \in DOMAIN cronJobs :
        /\ cronJobs[i].name = cronJobs[j].name
        /\ cronJobs[i].session_name # cronJobs[j].session_name
  /\ last.op = "createCronJob" /\ last.outcome = "already_exists"

\* ---------------------------------------------------------------- racing creates
\* createCronJob, one store access per step.
create_call(p, name, coworkerName) ==
  /\ inv[p].pc = "idle"
  /\ inv' = [inv EXCEPT ![p] = [NoInv EXCEPT !.op = "createCronJob",
                                           !.pc = "getSessionByName",
                                           !.cron = name, !.name = coworkerName]]
  /\ UNCHANGED <<backend, others, cronHistory, clock, tables, del, tx, observed, last>>

\* const coworker = await this.storage.getSessionByName(coworkerName)
create_getSessionByName(p) ==
  /\ inv[p].pc = "getSessionByName"
  /\ inv' = [inv EXCEPT ![p] =
       IF sessionExists(sessions, inv[p].name)
         THEN [@ EXCEPT !.pc = "cronJobExistsForSession"]
         ELSE [@ EXCEPT !.pc = "done", !.outcome = "not_found"]]
  /\ UNCHANGED <<backend, others, cronHistory, clock, tables, del, tx, observed, last>>

\* const exists = await this.storage.cronJobExistsForSession(name, coworkerName)
create_cronJobExistsForSession(p) ==
  /\ inv[p].pc = "cronJobExistsForSession"
  /\ inv' = [inv EXCEPT ![p] =
       IF cronJobExistsForSession(cronJobs, inv[p].cron, inv[p].name)
         THEN [@ EXCEPT !.pc = "done", !.outcome = "already_exists"]
         ELSE [@ EXCEPT !.pc = "createCronJob"]]
  /\ UNCHANGED <<backend, others, cronHistory, clock, tables, del, tx, observed, last>>

\* return this.storage.createCronJob(...)
create_createCronJob(p) ==
  /\ inv[p].pc = "createCronJob"
  /\ IF CronJobInsertRefused(backend, sessions, cronJobs, inv[p].cron, inv[p].name)
       THEN /\ inv' = [inv EXCEPT ![p] = [@ EXCEPT !.pc = "done",
                                                   !.outcome = "storage_error"]]
            /\ UNCHANGED <<cronJobs, cronJobIdCounter>>
       ELSE /\ cronJobIdCounter <= MaxCronJobs
            /\ cronJobs' = St_createCronJob(cronJobs, cronJobIdCounter, inv[p].cron,
                                            inv[p].name, At0300, NULL, "hello", clock)
            /\ cronJobIdCounter' = cronJobIdCounter + 1
            /\ inv' = [inv EXCEPT ![p] = [@ EXCEPT !.pc = "done", !.outcome = "ok",
                                                   !.id = cronJobIdCounter]]
  /\ last' = Result("createCronJob", inv'[p].outcome, inv'[p].id, inv[p].name, inv[p].cron)
  /\ UNCHANGED <<backend, others, cronHistory,
                 clock, sessions, sessionIdCounter, messages, messageIdCounter,
                 cronRequests, cronRequestIdCounter, tasks, taskIdCounter, del, tx,
                 observed>>

CreateCall ==
  \E p \in Procs, n \in CronNames, c \in CoworkerNames : create_call(p, n, c)
CreateReadSession == \E p \in Procs : create_getSessionByName(p)
CreateReadExists == \E p \in Procs : create_cronJobExistsForSession(p)
CreateInsert == \E p \in Procs : create_createCronJob(p)

NextCreateRace ==
  \/ Idle /\ CreateCoworker
  \/ Idle /\ CreateCronJob
  \/ CreateCall
  \/ CreateReadSession
  \/ CreateReadExists
  \/ CreateInsert

SpecCreateRace == Init /\ [][NextCreateRace]_vars

BothCreated(n, c) ==
  \A p \in Procs :
     inv[p].pc = "done" /\ inv[p].op = "createCronJob" /\ inv[p].cron = n /\ inv[p].name = c

\* C5: once two concurrent createCronJob invocations with the same name and coworker
\* have both finished, at most one cron job with that pair exists.
C5_RaceKeepsPairsUnique ==
  \A n \in CronNames, c \in CoworkerNames :
     BothCreated(n, c) =>
       Cardinality({i \in DOMAIN cronJobs :
                      cronJobs[i].name = n /\ cronJobs[i].session_name = c}) <= 1

\* ---------------------------------------------------------------- coworkers and what names them
SessionIds == 1 .. (MaxSessions + 1)
Recipients == {<<"alice">>, <<"bob">>, <<"alice", "bob">>}
Assignees == CoworkerNames \cup {NULL}
Title == <<"f", "i", "x">>
Description == <<"n", "o", "w">>

SendMessage ==
  \E f \in CoworkerNames, to \in Recipients, m \in Messages : sendMessage(f, to, m)
CreateCoworkerCronRequest ==
  \E c \in CoworkerNames, m \in Messages :
     FewRequests(c) /\ createCronRequest("standup", c, At0300, NULL, m)
CreateTask == \E a \in Assignees : createTask(Title, Description, a, "idea", <<>>)
DeleteSession == \E id \in SessionIds : deleteSession(id)

\* the cron jobs of this part: one name, a few rows
CreateCoworkerCronJob ==
  /\ cronJobIdCounter <= MaxOwned
  /\ \E c \in CoworkerNames, m \in Messages : createCronJob("standup", c, At0300, NULL, m)

NextCoworkers ==
  \/ CreateCoworker
  \/ SendMessage
  \/ CreateCoworkerCronJob
  \/ CreateCoworkerCronRequest
  \/ CreateTask
  \/ DeleteCoworker
  \/ DeleteSession

SpecCoworkers == Init /\ [][NextCoworkers]_vars

\* nothing in the tables names the coworker
NoMessageNames(M, name) ==
  \A i \in DOMAIN M : M[i].from_name # name /\ M[i].to_name # name
NoCronNames(X, name) == \A i \in DOMAIN X : X[i].session_name # name
NoTaskNames(T, name) == \A i \in DOMAIN T : T[i].assignee # name

\* C6: after a successful deleteCoworker(name) no message has name as sender or
\* recipient, no cron job and no cron request is bound to name, every task that was
\* assigned to name still exists with assignee null, and the coworker record is gone.
C6_NothingNamesDeletedCoworker ==
  [][\A n \in CoworkerNames :
        (deleteCoworker(n) /\ last'.outcome = "ok") =>
          /\ NoMessageNames(messages', n)
          /\ NoCronNames(cronJobs', n)
          /\ NoCronNames(cronRequests', n)
          /\ NoTaskNames(tasks', n)
          /\ DOMAIN tasks' = DOMAIN tasks
          /\ \A i \in DOMAIN tasks : tasks[i].assignee = n => tasks'[i].assignee = NULL
          /\ ~sessionExists(sessions', n)]_vars

\* a coworker deleted that had sent one message and received another, and had a cron
\* job, a cron request and a task
C6_Witness ==
  /\ last.op = "deleteCoworker" /\ last.outcome = "ok"
  /\ messageIdCounter = 3 /\ messages = <<>>
  /\ cronJobIdCounter = 2 /\ cronJobs = <<>>
  /\ cronRequestIdCounter = 2 /\ cronRequests = <<>>
  /\ taskIdCounter = 2 /\ tasks[1].assignee = NULL
  /\ sessionIdCounter = 3 /\ Cardinality(DOMAIN sessions) = 1

\* C9: after any sequence of operations every cron job and every cron request is bound
\* to a coworker whose record exists, whichever operation removed a coworker
\* (deleteCoworker or SessionService.deleteSession).
C9_CronRowsNameCoworkers ==
  /\ \A i \in DOMAIN cronJobs : sessionExists(sessions, cronJobs[i].session_name)
  /\ \A i \in DOMAIN cronRequests : sessionExists(sessions, cronRequests[i].session_name)

\* the rows of X that satisfy Other are in X2 as they were, and X2 has no row X lacked
Kept(X, X2, Other(_)) ==
  /\ DOMAIN X2 \subseteq DOMAIN X
  /\ \A i \in DOMAIN X : Other(X[i]) => (i \in DOMAIN X2 /\ X2[i] = X[i])

\* C32: deleteCoworker(name) changes nothing that belongs to other coworkers: messages
\* whose sender and recipient both differ from name, cron jobs and cron requests bound
\* to other coworkers, other coworker records, and tasks not assigned to name are
\* unchanged; a task that was assigned to name keeps its id, title, description, column
\* and dependencies.
C32_DeleteLeavesOthersAlone ==
  [][\A n \in CoworkerNames :
        (last'.op = "deleteCoworker" /\ deleteCoworker(n)) =>
          /\ Kept(messages, messages', LAMBDA m : m.from_name # n /\ m.to_name # n)
          /\ Kept(cronJobs, cronJobs', LAMBDA j : j.session_name # n)
          /\ Kept(cronRequests, cronRequests', LAMBDA r : r.session_name # n)
          /\ Kept(sessions, sessions', LAMBDA c : c.name # n)
          /\ Kept(tasks, tasks', LAMBDA t : t.assignee # n)
          /\ \A i \in DOMAIN tasks :
                /\ i \in DOMAIN tasks'
                /\ tasks'[i].id = tasks[i].id
                /\ tasks'[i].title = tasks[i].title
                /\ tasks'[i].description = tasks[i].description
                /\ tasks'[i].column = tasks[i].column
                /\ tasks'[i].dependencies = tasks[i].dependencies]_vars

\* alice deleted with one of the two messages; bob's message to bob, bob's cron job and
\* bob's cron request are there, and so is the task
C32_Witness ==
  /\ last.op = "deleteCoworker" /\ last.outcome = "ok" /\ last.name = "alice"
  /\ messageIdCounter = 3 /\ Cardinality(DOMAIN messages) = 1
  /\ \E i \in DOMAIN cronJobs : cronJobs[i].session_name = "bob"
  /\ \E i \in DOMAIN cronRequests : cronRequests[i].session_name = "bob"
  /\ 1 \in DOMAIN tasks /\ tasks[1].assignee = NULL

\* ---------------------------------------------------------------- deleteCoworker, step by step
\* One store access per step, for what a failing step leaves behind and for what
\* another process reads meanwhile.
Db == [sessions |-> sessions, messages |-> messages, cronJobs |-> cronJobs,
       cronRequests |-> cronRequests, tasks |-> tasks]

\* storage.begin: sql.begin of postgres.js holds the callback's statements in one
\* transaction.  db.transaction of better-sqlite3 ends its transaction when its function
\* returns, which for an async callback is at its first await, so the statements after
\* it run outside; the in-memory storage calls the callback on itself.  On both, every
\* statement is taken as committed on its own.
Atomic(b) == b = "postgres"

\* the tables the callback's tx reads and writes
TxView == IF Atomic(backend) THEN tx ELSE Db
TxWrite(db) ==
  IF Atomic(backend)
    THEN /\ tx' = db
         /\ UNCHANGED <<sessions, messages, cronJobs, cronRequests, tasks>>
    ELSE /\ tx' = tx
         /\ sessions' = db.sessions /\ messages' = db.messages /\ cronJobs' = db.cronJobs
         /\ cronRequests' = db.cronRequests /\ tasks' = db.tasks

DelFrame ==
  /\ cronHistory' = HistoryCascade(backend, cronHistory, cronJobs')
  /\ UNCHANGED <<backend, others, clock, sessionIdCounter, messageIdCounter,
                 cronJobIdCounter, cronRequestIdCounter, taskIdCounter, inv>>

\* after a listing: on to the loop over it, or past the loop if nothing was listed
AfterList(cursor, loop, next) == IF cursor = <<>> THEN next ELSE loop

\* const session = await service.getSessionByName(name), then storage.begin
del_getSessionByName(name) ==
  /\ del.pc = "idle"
  /\ IF ~sessionExists(sessions, name)
       THEN /\ last' = Result("deleteCoworker", "not_found", 0, name, "")
            /\ UNCHANGED <<del, tx>>
       ELSE /\ del' = [NoDel EXCEPT !.pc = "deleteMessagesForCoworker", !.name = name,
                                    !.sessionId = getSessionIdByName(sessions, name),
                                    !.pre = Db]
            /\ tx' = IF Atomic(backend) THEN Db ELSE NoTx
            /\ UNCHANGED last
  /\ UNCHANGED <<tables, observed>>
  /\ DelFrame

del_deleteMessagesForCoworker ==
  /\ del.pc = "deleteMessagesForCoworker"
  /\ TxWrite([TxView EXCEPT !.messages = St_deleteMessagesForCoworker(@, del.name)])
  /\ del' = [del EXCEPT !.pc = "listCronJobsForSession"]
  /\ UNCHANGED <<last, observed>> /\ DelFrame

del_listCronJobsForSession ==
  /\ del.pc = "listCronJobsForSession"
  /\ LET cursor == St_listCronJobsForSession(TxView.cronJobs, del.name)
     IN del' = [del EXCEPT !.cursor = cursor,
                           !.pc = AfterList(cursor, "deleteCronJob", "listCronRequests")]
  /\ UNCHANGED <<tables, tx, last, observed>> /\ DelFrame

del_deleteCronJob ==
  /\ del.pc = "deleteCronJob"
  /\ TxWrite([TxView EXCEPT !.cronJobs = St_deleteCronJob(@, Head(del.cursor))])
  /\ del' = [del EXCEPT !.cursor = Tail(@),
                        !.pc = AfterList(Tail(del.cursor), "deleteCronJob",
                                         "listCronRequests")]
  /\ UNCHANGED <<last, observed>> /\ DelFrame

del_listCronRequests ==
  /\ del.pc = "listCronRequests"
  /\ LET cursor == St_listCronRequests(TxView.cronRequests, UNDEFINED, del.name)
     IN del' = [del EXCEPT !.cursor = cursor,
                           !.pc = AfterList(cursor, "deleteCronRequest", "searchTasks")]
  /\ UNCHANGED <<tables, tx, last, observed>> /\ DelFrame

del_deleteCronRequest ==
  /\ del.pc = "deleteCronRequest"
  /\ TxWrite([TxView EXCEPT !.cronRequests = St_deleteCronRequest(@, Head(del.cursor))])
  /\ del' = [del EXCEPT !.cursor = Tail(@),
                        !.pc = AfterList(Tail(del.cursor), "deleteCronRequest",
                                         "searchTasks")]
  /\ UNCHANGED <<last, observed>> /\ DelFrame

\* a cascade that lists the tasks and goes on to the coworker record without unassigning
del_searchTasks_SkipsUnassign ==
  /\ del.pc = "searchTasks"
  /\ LET cursor == St_searchTasks(backend, TxView.tasks, <<>>, del.name, UNDEFINED)
     IN del' = [del EXCEPT !.cursor = cursor, !.pc = "deleteSession"]
  /\ UNCHANGED <<tables, tx, last, observed>> /\ DelFrame

del_searchTasks ==
  /\ del.pc = "searchTasks"
  /\ LET cursor == St_searchTasks(backend, TxView.tasks, <<>>, del.name, UNDEFINED)
     IN del' = [del EXCEPT !.cursor = cursor,
                           !.pc = AfterList(cursor, "updateTask", "deleteSession")]
  /\ UNCHANGED <<tables, tx, last, observed>> /\ DelFrame

del_updateTask ==
  /\ del.pc = "updateTask"
  /\ ~St_updateTaskThrows(backend, [assignee |-> NULL])
  /\ TxWrite([TxView EXCEPT
                !.tasks = St_updateTaskAssignee(@, Head(del.cursor), NULL, clock)])
  /\ del' = [del EXCEPT !.cursor = Tail(@),
                        !.pc = AfterList(Tail(del.cursor), "updateTask", "deleteSession")]
  /\ UNCHANGED <<last, observed>> /\ DelFrame

\* await tx.deleteSession(session.id): the last statement of the callback.  Where the
\* statements are committed one by one, the command is through with it.
del_deleteSession ==
  /\ del.pc = "deleteSession"
  /\ LET v == TxView
     IN TxWrite([v EXCEPT
                   !.sessions = St_deleteSession(@, del.sessionId),
                   !.cronJobs = FkCascade(backend, v.sessions, del.sessionId, @),
                   !.cronRequests = FkCascade(backend, v.sessions, del.sessionId, @)])
  /\ IF Atomic(backend)
       THEN del' = [del EXCEPT !.pc = "commit"] /\ UNCHANGED <<last, observed>>
       ELSE /\ del' = NoDel
            /\ observed' = NotObserved
            /\ last' = Result("deleteCoworker", "ok", del.sessionId, del.name, "")
  /\ DelFrame

\* COMMIT: the transaction's tables become the store's
del_commit ==
  /\ del.pc = "commit"
  /\ sessions' = tx.sessions /\ messages' = tx.messages /\ cronJobs' = tx.cronJobs
  /\ cronRequests' = tx.cronRequests /\ tasks' = tx.tasks
  /\ tx' = NoTx
  /\ del' = NoDel
  /\ observed' = NotObserved
  /\ last' = Result("deleteCoworker", "ok", del.sessionId, del.name, "")
  /\ DelFrame

\* the statement at del.pc throws (the connection is lost, the database is locked):
\* an open transaction is rolled back, and the error is the command's
InTransaction == del.pc \notin {"idle", "commit"}
del_throw ==
  /\ InTransaction
  /\ backend # "mock"
  /\ tx' = NoTx
  /\ del' = NoDel
  /\ observed' = NotObserved
  /\ last' = Result("deleteCoworker", "storage_error", del.sessionId, del.name, del.pc)
  /\ UNCHANGED <<tables>>
  /\ DelFrame

\* another process reads the store while the command runs; what it has read is kept
\* for as long as the command runs
read ==
  /\ del.pc # "idle"
  /\ observed' = [db |-> Db, pre |-> del.pre, name |-> del.name]
  /\ UNCHANGED <<backend, others, cronHistory, clock, tables, inv, del, tx, last>>

\* the rows in place before the command is first called: a few per table
Before == Idle /\ last.op # "deleteCoworker"
HaveMessage ==
  /\ messageIdCounter <= MaxOwned
  /\ \E f \in CoworkerNames, t \in CoworkerNames, m \in Messages : sendMessage(f, <<t>>, m)
HaveCronRequest == cronRequestIdCounter <= MaxOwned /\ CreateCoworkerCronRequest
HaveTask == taskIdCounter <= MaxOwned /\ CreateTask

DelCall == \E n \in CoworkerNames : del_getSessionByName(n)

NextDeleteSteps ==
  \/ Before /\ CreateCoworker
  \/ Before /\ HaveMessage
  \/ Before /\ CreateCoworkerCronJob
  \/ Before /\ HaveCronRequest
  \/ Before /\ HaveTask
  \/ DelCall
  \/ del_deleteMessagesForCoworker
  \/ del_listCronJobsForSession
  \/ del_deleteCronJob
  \/ del_listCronRequests
  \/ del_deleteCronRequest
  \/ del_searchTasks
  \/ del_updateTask
  \/ del_deleteSession
  \/ del_commit
  \/ del_throw
  \/ read

SpecDeleteSteps == Init /\ [][NextDeleteSteps]_vars

\* C7: deleteCoworker is all-or-nothing: when a step of the cascade fails, messages,
\* cron jobs, cron requests, task assignees and the coworker record are all as before
\* the call, and the error reaches the caller.
C7_FailedDeleteLeavesNothing ==
  [][del_throw => (Db' = del.pre /\ last'.outcome = "storage_error")]_vars

\* C8: what another process reads while deleteCoworker(name) runs is either the state
\* before the delete or the state after all five steps, in which nothing names the
\* coworker and its record is gone.
C8_ReaderSeesBeforeOrAfter ==
  observed # NotObserved =>
    \/ observed.db = observed.pre
    \/ /\ ~sessionExists(observed.db.sessions, observed.name)
       /\ NoMessageNames(observed.db.messages, observed.name)
       /\ NoCronNames(observed.db.cronJobs, observed.name)
       /\ NoCronNames(observed.db.cronRequests, observed.name)
       /\ NoTaskNames(observed.db.tasks, observed.name)

\* the position of a statement in the callback of storage.begin
StepRank(pc) ==
  CASE pc = "deleteMessagesForCoworker" -> 1
    [] pc \in {"listCronJobsForSession", "deleteCronJob"} -> 2
    [] pc \in {"listCronRequests", "deleteCronRequest"} -> 3
    [] pc \in {"searchTasks", "updateTask"} -> 4
    [] pc = "deleteSession" -> 5
    [] OTHER -> 6

\* C31: within deleteCoworker the steps run in the order messages, cron jobs, cron
\* requests, task unassignment, coworker record: the statements of the callback never
\* go back to an earlier step, and the coworker record is removed only when, in the
\* tables the callback works on, no message, cron job or cron request of that coworker
\* remains and no task is assigned to it.
C31_RecordRemovedLast ==
  [][/\ (InTransaction /\ del'.pc # "idle") => StepRank(del'.pc) >= StepRank(del.pc)
     /\ del_deleteSession =>
           /\ sessionExists(TxView.sessions, del.name)
           /\ NoMessageNames(TxView.messages, del.name)
           /\ NoCronNames(TxView.cronJobs, del.name)
           /\ NoCronNames(TxView.cronRequests, del.name)
           /\ NoTaskNames(TxView.tasks, del.name)]_vars

\* the record is about to be removed of a coworker that had a message, a cron job, a
\* cron request and a task
C31_Witness ==
  /\ del.pc = "deleteSession"
  /\ ~NoMessageNames(del.pre.messages, del.name)
  /\ ~NoCronNames(del.pre.cronJobs, del.name)
  /\ ~NoCronNames(del.pre.cronRequests, del.name)
  /\ ~NoTaskNames(del.pre.tasks, del.name)

\* ---------------------------------------------------------------- a create racing deleteCoworker
\* createCronJob or createCronRequest of process 1, one store access per step, while
\* the statements of deleteCoworker run.  No task is stored here, so the cascade has no
\* task to unassign.
Racer == Min(Procs)
RaceOps == {"createCronJob", "createCronRequest"}
RaceFrame ==
  UNCHANGED <<backend, others, cronHistory, clock, sessions, sessionIdCounter, messages,
              messageIdCounter, tasks, taskIdCounter, del, observed>>

race_call(op, name, coworkerName) ==
  /\ inv[Racer].pc = "idle"
  /\ inv' = [inv EXCEPT ![Racer] = [NoInv EXCEPT !.op = op, !.pc = "getSessionByName",
                                               !.cron = name, !.name = coworkerName]]
  /\ UNCHANGED <<cronJobs, cronJobIdCounter, cronRequests, cronRequestIdCounter, tx, last>>
  /\ RaceFrame

\* const coworker = await this.storage.getSessionByName(coworkerName): a read of what
\* is committed
race_getSessionByName ==
  /\ inv[Racer].pc = "getSessionByName"
  /\ inv' = [inv EXCEPT ![Racer] =
       IF ~sessionExists(sessions, inv[Racer].name)
         THEN [@ EXCEPT !.pc = "done", !.outcome = "not_found"]
         ELSE IF inv[Racer].op = "createCronJob"
           THEN [@ EXCEPT !.pc = "cronJobExistsForSession"]
           ELSE [@ EXCEPT !.pc = "createCronRequest"]]
  /\ UNCHANGED <<cronJobs, cronJobIdCounter, cronRequests, cronRequestIdCounter, tx, last>>
  /\ RaceFrame

race_cronJobExistsForSession ==
  /\ inv[Racer].pc = "cronJobExistsForSession"
  /\ inv' = [inv EXCEPT ![Racer] =
       IF cronJobExistsForSession(cronJobs, inv[Racer].cron, inv[Racer].name)
         THEN [@ EXCEPT !.pc = "done", !.outcome = "already_exists"]
         ELSE [@ EXCEPT !.pc = "createCronJob"]]
  /\ UNCHANGED <<cronJobs, cronJobIdCounter, cronRequests, cronRequestIdCounter, tx, last>>
  /\ RaceFrame

\* session_name REFERENCES sessions(name), of cron_jobs and of cron_requests: the
\* in-memory storage has no schema
SessionKeyRefused(b, S, sessionName) == b # "mock" /\ ~sessionExists(S, sessionName)

\* an INSERT naming a session whose row an open transaction has deleted waits for that
\* transaction to end
WaitsForTransaction(sessionName) ==
  /\ tx # NoTx
  /\ sessionExists(sessions, sessionName)
  /\ ~sessionExists(tx.sessions, sessionName)

\* a row committed while a transaction is open is there for the statements the
\* transaction has yet to run
Committed(table, row) ==
  tx' = IF tx = NoTx THEN tx ELSE [tx EXCEPT ![table] = Insert(@, row)]

\* return this.storage.createCronJob(name, coworkerName, schedule, timezone, message)
race_createCronJob ==
  /\ inv[Racer].pc = "createCronJob"
  /\ ~WaitsForTransaction(inv[Racer].name)
  /\ IF CronJobInsertRefused(backend, sessions, cronJobs, inv[Racer].cron, inv[Racer].name)
       THEN /\ inv' = [inv EXCEPT ![Racer] = [@ EXCEPT !.pc = "done",
                                                       !.outcome = "storage_error"]]
            /\ UNCHANGED <<cronJobs, cronJobIdCounter, tx>>
       ELSE /\ cronJobIdCounter <= MaxCronJobs
            /\ cronJobs' = St_createCronJob(cronJobs, cronJobIdCounter, inv[Racer].cron,
                                            inv[Racer].name, "0 3 * * *", "UTC", "hello",
                                            clock)
            /\ Committed("cronJobs", cronJobs'[cronJobIdCounter])
            /\ cronJobIdCounter' = cronJobIdCounter + 1
            /\ inv' = [inv EXCEPT ![Racer] = [@ EXCEPT !.pc = "done", !.outcome = "ok",
                                                       !.id = cronJobIdCounter]]
  /\ last' = Result("createCronJob", inv'[Racer].outcome, inv'[Racer].id, inv[Racer].name,
                    inv[Racer].cron)
  /\ UNCHANGED <<cronRequests, cronRequestIdCounter>>
  /\ RaceFrame

\* return this.storage.createCronRequest(name, coworkerName, schedule, timezone, message)
race_createCronRequest ==
  /\ inv[Racer].pc = "createCronRequest"
  /\ ~WaitsForTransaction(inv[Racer].name)
  /\ IF SessionKeyRefused(backend, sessions, inv[Racer].name)
       THEN /\ inv' = [inv EXCEPT ![Racer] = [@ EXCEPT !.pc = "done",
                                                       !.outcome = "storage_error"]]
            /\ UNCHANGED <<cronRequests, cronRequestIdCounter, tx>>
       ELSE /\ cronRequestIdCounter <= MaxCronRequests
            /\ cronRequests' = St_createCronRequest(cronRequests, cronRequestIdCounter,
                                                    inv[Racer].cron, inv[Racer].name,
                                                    "0 3 * * *", "UTC", "hello", clock)
            /\ Committed("cronRequests", cronRequests'[cronRequestIdCounter])
            /\ cronRequestIdCounter' = cronRequestIdCounter + 1
            /\ inv' = [inv EXCEPT ![Racer] = [@ EXCEPT !.pc = "done", !.outcome = "ok",
                                                       !.id = cronRequestIdCounter]]
  /\ last' = Result("createCronRequest", inv'[Racer].outcome, inv'[Racer].id,
                    inv[Racer].name, inv[Racer].cron)
  /\ UNCHANGED <<cronJobs, cronJobIdCounter>>
  /\ RaceFrame

RaceCall == \E op \in RaceOps, c \in CoworkerNames : race_call(op, "standup", c)

NextDeleteRace ==
  \/ Before /\ inv[Racer].pc = "idle" /\ CreateCoworker
  \/ Before /\ inv[Racer].pc = "idle" /\ CreateCoworkerCronJob
  \/ Before /\ inv[Racer].pc = "idle" /\ HaveCronRequest
  \/ RaceCall
  \/ race_getSessionByName
  \/ race_cronJobExistsForSession
  \/ race_createCronJob
  \/ race_createCronRequest
  \/ DelCall
  \/ del_deleteMessagesForCoworker
  \/ del_listCronJobsForSession
  \/ del_deleteCronJob
  \/ del_listCronRequests
  \/ del_deleteCronRequest
  \/ del_searchTasks
  \/ del_deleteSession
  \/ del_commit

SpecDeleteRace == Init /\ [][NextDeleteRace]_vars

\* the create and the delete have both returned, and the coworker's record is gone
BothFinished(c) ==
  /\ inv[Racer].pc = "done" /\ inv[Racer].name = c
  /\ del.pc = "idle"
  /\ ~sessionExists(sessions, c)

\* C33: under any interleaving of createCronJob or createCronRequest for coworker C
\* with a concurrent deleteCoworker(C), once both invocations have finished and C's
\* record is gone, no cron job and no cron request bound to C exists.
C33_NoRowOutlivesCoworker ==
  \A c \in CoworkerNames :
     BothFinished(c) => NoCronNames(cronJobs, c) /\ NoCronNames(cronRequests, c)

\* the same, where the schema has the foreign key
C33_HoldsWithForeignKey == backend # "mock" => C33_NoRowOutlivesCoworker

\* ---------------------------------------------------------------- CronService: checking a job
\* an enable that flips the flag
enableCronJob_Toggles(id) ==
  /\ IF id \notin DOMAIN cronJobs
       THEN /\ last' = Result("enableCronJob", "not_found", id, "", "")
            /\ UNCHANGED cronJobs
       ELSE /\ cronJobs' = St_setCronJobEnabled(cronJobs, id, ~cronJobs[id].enabled)
            /\ last' = Result("enableCronJob", "ok", id, "", "")
  /\ UNCHANGED <<backend, others, cronHistory,
                 clock, sessions, sessionIdCounter, messages, messageIdCounter,
                 cronJobIdCounter, cronRequests, cronRequestIdCounter, tasks, taskIdCounter,
                 inv, del, tx, observed>>

enableCronJob(id) ==
  /\ IF id \notin DOMAIN cronJobs
       THEN /\ last' = Result("enableCronJob", "not_found", id, "", "")
            /\ UNCHANGED cronJobs
       ELSE /\ cronJobs' = St_setCronJobEnabled(cronJobs, id, TRUE)
            /\ last' = Result("enableCronJob", "ok", id, "", "")
  /\ UNCHANGED <<backend, others, cronHistory,
                 clock, sessions, sessionIdCounter, messages, messageIdCounter,
                 cronJobIdCounter, cronRequests, cronRequestIdCounter, tasks, taskIdCounter,
                 inv, del, tx, observed>>

disableCronJob(id) ==
  /\ IF id \notin DOMAIN cronJobs
       THEN /\ last' = Result("disableCronJob", "not_found", id, "", "")
            /\ UNCHANGED cronJobs
       ELSE /\ cronJobs' = St_setCronJobEnabled(cronJobs, id, FALSE)
            /\ last' = Result("disableCronJob", "ok", id, "", "")
  /\ UNCHANGED <<backend, others, cronHistory,
                 clock, sessions, sessionIdCounter, messages, messageIdCounter,
                 cronJobIdCounter, cronRequests, cronRequestIdCounter, tasks, taskIdCounter,
                 inv, del, tx, observed>>

\* new Cron(schedule, options): five fields, each * or a number the field allows; an
\* unknown time zone is refused as well
NumberOf == ("0" :> 0) @@ ("3" :> 3) @@ ("9" :> 9) @@ ("15" :> 15)
FieldRange == <<0 .. 59, 0 .. 23, 1 .. 31, 1 .. 12, 0 .. 6>>
FieldOk(schedule, k) ==
  \/ schedule[k] = "*"
  \/ schedule[k] \in DOMAIN NumberOf /\ NumberOf[schedule[k]] \in FieldRange[k]
Parsable(schedule) == Len(schedule) = 5 /\ \A k \in 1 .. 5 : FieldOk(schedule, k)

\* the zones in use, in hours east of UTC in January; without a zone the pattern is matched in the
\* zone of the process
ZoneHours == ("UTC" :> 0) @@ ("America/New_York" :> 0 - 5)
LocalZone == "UTC"
ZoneOf(timezone) == IF Truthy(timezone) THEN timezone ELSE LocalZone
CronAccepts(schedule, timezone) == Parsable(schedule) /\ ZoneOf(timezone) \in DOMAIN ZoneHours

\* an instant, given by its fields in the zone of the process, as the fields it has in
\* the zone of the pattern (instants are taken far from the end of a month)
InZone(d, timezone) ==
  LET h == d.hour + ZoneHours[ZoneOf(timezone)] - ZoneHours[LocalZone]
      carry == IF h >= 24 THEN 1 ELSE IF h < 0 THEN 0 - 1 ELSE 0
  IN [d EXCEPT !.hour = (h + 24) % 24, !.day = d.day + carry,
               !.weekday = (d.weekday + carry + 7) % 7]

\* checkDate.setSeconds(0, 0): the seconds and the milliseconds
TruncateToMinute(d) == [d EXCEPT !.second = 0, !.ms = 0]

FieldMatches(f, v) == f = "*" \/ NumberOf[f] = v

\* cron.match(date): a pattern of five fields matches at second 0 of its minutes
CronMatch(schedule, timezone, date) ==
  LET d == InZone(date, timezone)
  IN /\ d.second = 0
     /\ FieldMatches(schedule[1], d.minute)
     /\ FieldMatches(schedule[2], d.hour)
     /\ FieldMatches(schedule[3], d.day)
     /\ FieldMatches(schedule[4], d.month)
     /\ FieldMatches(schedule[5], d.weekday)

CheckFrame ==
  UNCHANGED <<backend, others, cronHistory, clock, tables, inv, del, tx, observed>>

\* a check that builds the Cron before it looks at the enabled flag
checkCronJob_EvaluatesFirst(cronJobId, referenceDate) ==
  /\ last' =
       IF cronJobId \notin DOMAIN cronJobs
         THEN Result("checkCronJob", "not_found", cronJobId, "", referenceDate)
       ELSE LET job == cronJobs[cronJobId]
            IN IF ~CronAccepts(job.schedule, job.timezone)
                 THEN Result("checkCronJob", "invalid_schedule", cronJobId, "", referenceDate)
               ELSE IF ~job.enabled
                 THEN Result("checkCronJob", "false", cronJobId, "", referenceDate)
               ELSE IF CronMatch(job.schedule, job.timezone, TruncateToMinute(referenceDate))
                 THEN Result("checkCronJob", "true", cronJobId, "", referenceDate)
                 ELSE Result("checkCronJob", "false", cronJobId, "", referenceDate)
  /\ CheckFrame

\* a check that matches the pattern in the zone of the process, whatever zone the job has
checkCronJob_LocalTime(cronJobId, referenceDate) ==
  /\ last' =
       IF cronJobId \notin DOMAIN cronJobs
         THEN Result("checkCronJob", "not_found", cronJobId, "", referenceDate)
       ELSE LET job == cronJobs[cronJobId]
            IN IF ~job.enabled
                 THEN Result("checkCronJob", "false", cronJobId, "", referenceDate)
               ELSE IF ~CronAccepts(job.schedule, NULL)
                 THEN Result("checkCronJob", "invalid_schedule", cronJobId, "", referenceDate)
               ELSE IF CronMatch(job.schedule, NULL, TruncateToMinute(referenceDate))
                 THEN Result("checkCronJob", "true", cronJobId, "", referenceDate)
                 ELSE Result("checkCronJob", "false", cronJobId, "", referenceDate)
  /\ CheckFrame

\* a check that matches the pattern against the reference date as it was given
checkCronJob_NoTruncation(cronJobId, referenceDate) ==
  /\ last' =
       IF cronJobId \notin DOMAIN cronJobs
         THEN Result("checkCronJob", "not_found", cronJobId, "", referenceDate)
       ELSE LET job == cronJobs[cronJobId]
            IN IF ~job.enabled
                 THEN Result("checkCronJob", "false", cronJobId, "", referenceDate)
               ELSE IF ~CronAccepts(job.schedule, job.timezone)
                 THEN Result("checkCronJob", "invalid_schedule", cronJobId, "", referenceDate)
               ELSE IF CronMatch(job.schedule, job.timezone, referenceDate)
                 THEN Result("checkCronJob", "true", cronJobId, "", referenceDate)
                 ELSE Result("checkCronJob", "false", cronJobId, "", referenceDate)
  /\ CheckFrame

\* the schedule is matched against checkDate, a copy: the detail of the result is the
\* caller's referenceDate as the call leaves it
checkCronJob(cronJobId, referenceDate) ==
  /\ last' =
       IF cronJobId \notin DOMAIN cronJobs
         THEN Result("checkCronJob", "not_found", cronJobId, "", referenceDate)
       ELSE LET job == cronJobs[cronJobId]
            IN IF ~job.enabled
                 THEN Result("checkCronJob", "false", cronJobId, "", referenceDate)
               ELSE IF ~CronAccepts(job.schedule, job.timezone)
                 THEN Result("checkCronJob", "invalid_schedule", cronJobId, "", referenceDate)
               ELSE IF CronMatch(job.schedule, job.timezone, TruncateToMinute(referenceDate))
                 THEN Result("checkCronJob", "true", cronJobId, "", referenceDate)
                 ELSE Result("checkCronJob", "false", cronJobId, "", referenceDate)
  /\ CheckFrame

\* ---------------------------------------------------------------- checking jobs
\* 2024-01-15 (a Monday) at 03:00:00, 03:00:30 and 04:00:00
At3AM ==
  [month |-> 1, day |-> 15, weekday |-> 1, hour |-> 3, minute |-> 0, second |-> 0, ms |-> 0]
ReferenceDates == {At3AM, [At3AM EXCEPT !.second = 30], [At3AM EXCEPT !.hour = 4]}

CreateScheduledJob ==
  \E n \in CronNames, c \in Requesters, sch \in Schedules, m \in Messages :
     createCronJob(n, c, sch, NULL, m)
EnableCronJob == \E id \in JobIds : enableCronJob(id)
DisableCronJob == \E id \in JobIds : disableCronJob(id)
CheckCronJob == \E id \in JobIds, d \in ReferenceDates : checkCronJob(id, d)

NextCheck ==
  \/ CreateRequester
  \/ CreateScheduledJob
  \/ EnableCronJob
  \/ DisableCronJob
  \/ DeleteCronJob
  \/ CheckCronJob

SpecCheck == Init /\ [][NextCheck]_vars

\* C10: a job that is disabled stays disabled until enableCronJob is called on it, and
\* meanwhile checkCronJob answers false for every reference instant and every schedule,
\* unparsable ones included; on an enabled job the answer is the schedule's again: an
\* error for an unparsable one, else whether the schedule matches the instant's minute.
C10_DisabledJobNeverDue ==
  [][\A id \in DOMAIN cronJobs :
        /\ (~cronJobs[id].enabled /\ id \in DOMAIN cronJobs' /\ cronJobs'[id].enabled)
             => enableCronJob(id)
        /\ \A d \in ReferenceDates :
             checkCronJob(id, d) =>
               IF ~cronJobs[id].enabled THEN last'.outcome = "false"
               ELSE IF cronJobs[id].schedule = Unparsable
                 THEN last'.outcome = "invalid_schedule"
               ELSE IF cronJobs[id].schedule = EveryMinute THEN last'.outcome = "true"
               ELSE last'.outcome = (IF d.hour = 3 THEN "true" ELSE "false")]_vars

\* a disabled job with an unparsable schedule, checked: the answer was false
C10_Witness ==
  \E id \in DOMAIN cronJobs :
     /\ ~cronJobs[id].enabled
     /\ cronJobs[id].schedule = Unparsable
     /\ last.op = "checkCronJob" /\ last.id = id /\ last.outcome = "false"

\* ---------------------------------------------------------------- fixed-time schedules
At0900 == <<"0", "9", "*", "*", "*">>
FixedTimes == {At0300, At0900}
JobZones == {NULL, "UTC", "America/New_York"}

\* 2024-01-15 at 02:59, 03:00, 03:00:30.500, 04:00, 08:00, 09:00, 09:00:59.999, 09:01 and
\* 14:00, as the process reads them
Instants ==
  {[At3AM EXCEPT !.hour = 2, !.minute = 59],
   At3AM,
   [At3AM EXCEPT !.second = 30, !.ms = 500],
   [At3AM EXCEPT !.hour = 4],
   [At3AM EXCEPT !.hour = 8],
   [At3AM EXCEPT !.hour = 9],
   [At3AM EXCEPT !.hour = 9, !.second = 59, !.ms = 999],
   [At3AM EXCEPT !.hour = 9, !.minute = 1],
   [At3AM EXCEPT !.hour = 14]}

CreateFixedTimeJob ==
  \E c \in Requesters, sch \in FixedTimes \cup {EveryMinute}, tz \in JobZones,
     m \in Messages :
     createCronJob("standup", c, sch, tz, m)
CheckAtInstant == \E id \in JobIds, d \in Instants : checkCronJob(id, d)

NextDue ==
  \/ CreateRequester
  \/ CreateFixedTimeJob
  \/ DisableCronJob
  \/ EnableCronJob
  \/ DeleteCronJob
  \/ CheckAtInstant

SpecDue == Init /\ [][NextDue]_vars

\* the hour and the minute a clock on the wall shows at instant d in the job's zone: the
\* zone of the process where the job has none
WallClock(d, timezone) ==
  LET west == IF timezone = "America/New_York" THEN 5 ELSE 0
  IN <<(d.hour + 24 - west) % 24, d.minute>>
HourMinuteOf(schedule) == <<NumberOf[schedule[2]], NumberOf[schedule[1]]>>

\* C11: on an enabled job whose schedule is 'M H * * *', checkCronJob answers true when
\* the reference instant, read in the job's timezone, lies in the minute H:M, and false
\* at every other instant; on an enabled job scheduled '* * * * *' it answers true at
\* every instant.  So '0 3 * * *' is true at 03:00, false at 02:59 and at 04:00, and
\* '0 9 * * *' in UTC is true at 09:00Z, false at 09:01Z.
C11_FixedTimeDueAtItsMinute ==
  [][\A id \in DOMAIN cronJobs, d \in Instants :
        (checkCronJob(id, d) /\ cronJobs[id].enabled) =>
          LET job == cronJobs[id]
          IN /\ job.schedule = EveryMinute => last'.outcome = "true"
             /\ job.schedule \in FixedTimes =>
                  last'.outcome = (IF WallClock(d, job.timezone) = HourMinuteOf(job.schedule)
                                     THEN "true" ELSE "false")
             /\ (job.schedule = At0300 /\ job.timezone \in {NULL, "UTC"}) =>
                  /\ <<d.hour, d.minute>> = <<3, 0>> => last'.outcome = "true"
                  /\ <<d.hour, d.minute>> \in {<<2, 59>>, <<4, 0>>} => last'.outcome = "false"
             /\ (job.schedule = At0900 /\ job.timezone = "UTC") =>
                  /\ <<d.hour, d.minute>> = <<9, 0>> => last'.outcome = "true"
                  /\ <<d.hour, d.minute>> = <<9, 1>> => last'.outcome = "false"]_vars

\* a job scheduled for 09:00 in New York, checked at 14:00 in the zone of the process: due
C11_Witness ==
  \E id \in DOMAIN cronJobs :
     /\ cronJobs[id].enabled
     /\ cronJobs[id].schedule = At0900 /\ cronJobs[id].timezone = "America/New_York"
     /\ last.op = "checkCronJob" /\ last.id = id /\ last.outcome = "true"
     /\ last.detail.hour = 14

\* two instants of one calendar minute
SameMinute(d, e) == [d EXCEPT !.second = 0, !.ms = 0] = [e EXCEPT !.second = 0, !.ms = 0]

\* C12: checkCronJob gives one answer for all the reference instants of a calendar
\* minute (a check of a job that follows a check of the same job at another instant of
\* the same minute answers as that one did), and it leaves the caller's reference
\* instant as it was, seconds and milliseconds included.
C12_SameMinuteSameAnswer ==
  [][\A id \in DOMAIN cronJobs, d \in Instants :
        checkCronJob(id, d) =>
          /\ last'.detail = d
          /\ (last.op = "checkCronJob" /\ last.id = id /\ SameMinute(last.detail, d))
               => last'.outcome = last.outcome]_vars

\* an enabled 03:00 job checked half a minute past 03:00: due, and the instant is intact
C12_Witness ==
  \E id \in DOMAIN cronJobs :
     /\ cronJobs[id].enabled /\ cronJobs[id].schedule = At0300
     /\ last.op = "checkCronJob" /\ last.id = id /\ last.outcome = "true"
     /\ last.detail.second = 30 /\ last.detail.ms = 500

\* ---------------------------------------------------------------- the task board
TaskIds == 1 .. (MaxTasks + 1)
TaskAssignees == {NULL, "alice"}
Renamed == <<"f", "o", "x">>
\* the six columns, the empty string and another string that names no column
Columns == validColumns \cup {"", "invalid"}

\* the updates objects: any of the five fields, each with a value or left out
FullUpdates ==
  [title : {Title, Renamed}, description : {Description}, assignee : TaskAssignees,
   column : {"idea", "done", "", "invalid"}, dependencies : {<<>>}]
Updates == {[f \in D |-> u[f]] : u \in FullUpdates, D \in SUBSET UpdateFields}

AddTask ==
  \E a \in TaskAssignees, c \in Columns : createTask(Title, Description, a, c, <<>>)
UpdateTask == \E id \in TaskIds, u \in Updates : updateTask(id, u)
MoveTask == \E id \in TaskIds, c \in Columns : moveTask(id, c)
AssignTask == \E id \in TaskIds : assignTask(id, "alice")
UnassignTask == \E id \in TaskIds : unassignTask(id)
DeleteTask == \E id \in TaskIds : deleteTask(id)

NextTasks ==
  \/ Tick
  \/ AddTask
  \/ UpdateTask
  \/ MoveTask
  \/ AssignTask
  \/ UnassignTask
  \/ DeleteTask

SpecTasks == Init /\ [][NextTasks]_vars

\* C13: moveTask of a task that is in one of the six columns to any other of the six
\* succeeds, leaves the task in the target column, and leaves its updated_at strictly
\* later than it was.
C13_MoveSucceedsAndBumps ==
  [][\A id \in DOMAIN tasks, c \in validColumns :
        (moveTask(id, c) /\ tasks[id].column \in validColumns /\ tasks[id].column # c) =>
          /\ last'.outcome = "ok"
          /\ tasks'[id].column = c
          /\ tasks'[id].updated_at > tasks[id].updated_at]_vars

\* C14 as stated: moveTask to the column the task is in fails with the 'already in
\* column' error and leaves the task as it was, updated_at included, and moveTask on an
\* absent id fails with not-found, whatever the column asked for.
C14_SameColumnOrAbsentFails ==
  [][\A id \in TaskIds, c \in Columns :
        (last'.op = "moveTask" /\ moveTask(id, c)) =>
          /\ id \notin DOMAIN tasks => last'.outcome = "not_found"
          /\ (id \in DOMAIN tasks /\ tasks[id].column = c) =>
               (last'.outcome = "already_in_column" /\ tasks' = tasks)]_vars

\* C14, amended: the column asked for is looked at first.  moveTask with a column that
\* is not one of the six fails with the invalid-column error, whether or not the task
\* exists; with one of the six it fails with not-found on an absent id, and with the
\* 'already in column' error when the task is in that column.  In each of these cases
\* the tasks are left as they were, updated_at included.
C14_RecognizedColumnSameOrAbsentFails ==
  [][\A id \in TaskIds, c \in Columns :
        (last'.op = "moveTask" /\ moveTask(id, c)) =>
          /\ c \notin validColumns => (last'.outcome = "invalid_column" /\ tasks' = tasks)
          /\ (c \in validColumns /\ id \notin DOMAIN tasks) =>
               (last'.outcome = "not_found" /\ tasks' = tasks)
          /\ (c \in validColumns /\ id \in DOMAIN tasks /\ tasks[id].column = c) =>
               (last'.outcome = "already_in_column" /\ tasks' = tasks)]_vars

\* a task moved to the column it is in, some time after it was last updated: refused
C14_Witness ==
  /\ last.op = "moveTask" /\ last.outcome = "already_in_column"
  /\ last.id \in DOMAIN tasks
  /\ tasks[last.id].column = last.detail
  /\ tasks[last.id].updated_at < clock

\* C15: whatever TaskService operations were called, and with whatever strings, every
\* stored task is in one of the six columns.
C15_ColumnsAreRecognized ==
  \A i \in DOMAIN tasks : tasks[i].column \in validColumns

\* C16: a column that is not one of the six is refused before the store is written:
\* createTask with such a column stores no task, and updateTask with such a column
\* fails and leaves every field of the task as it was, the other fields supplied and
\* updated_at included.
C16_BadColumnWritesNothing ==
  [][/\ \A a \in TaskAssignees, c \in Columns \ validColumns :
          createTask(Title, Description, a, c, <<>>) =>
            (last'.outcome = "invalid_column" /\ tasks' = tasks)
     /\ \A id \in TaskIds, u \in Updates :
          (updateTask(id, u) /\ "column" \in DOMAIN u /\ u.column \notin validColumns) =>
            (last'.outcome \in {"not_found", "invalid_column"} /\ tasks' = tasks)]_vars

RECURSIVE SumCounts(_)
SumCounts(stats) == IF stats = <<>> THEN 0 ELSE Head(stats).count + SumCounts(Tail(stats))

\* C17: in every reachable state getColumnStats returns six entries, one per column in
\* the fixed order, each with the number of tasks in that column, and the six counts
\* add up to the number of stored tasks.
C17_StatsCoverEveryTask ==
  LET stats == getColumnStats(tasks)
  IN /\ Len(stats) = 6
     /\ \A k \in 1 .. 6 :
          /\ stats[k].column = ColumnOrder[k]
          /\ stats[k].count = Cardinality({i \in DOMAIN tasks : tasks[i].column = ColumnOrder[k]})
     /\ {stats[k].column : k \in 1 .. 6} = validColumns
     /\ SumCounts(stats) = Cardinality(DOMAIN tasks)

\* C18: every updateTask that succeeds sets updated_at to the time of the call, whichever
\* of the five fields the update supplies (none of them, or values the task already
\* has, included), on every backend.
C18_UpdateRefreshesUpdatedAt ==
  [][\A id \in TaskIds, u \in Updates :
        (updateTask(id, u) /\ last'.outcome = "ok") => tasks'[id].updated_at = clock]_vars

\* ---------------------------------------------------------------- cron rows and their coworker
\* the names of the coworkers, the empty name among them
BoundNames == CoworkerNames \cup {""}

CreateCronFor ==
  \E c \in BoundNames, m \in Messages : createCronJob("standup", c, At0300, NULL, m)
RequestCronFor ==
  \E c \in BoundNames, m \in Messages :
     FewRequests(c) /\ createCronRequest("standup", c, At0300, NULL, m)

NextBinding ==
  \/ CreateCoworker
  \/ DeleteCoworker
  \/ CreateCronFor
  \/ RequestCronFor
  \/ DeleteCronJob

SpecBinding == Init /\ [][NextBinding]_vars

\* C19: createCronJob and createCronRequest for a coworker name that no coworker has,
\* the empty name included, fail with the not-found error, and no cron job and no cron
\* request is stored by the call.
C19_UnknownCoworkerStoresNothing ==
  [][\A c \in BoundNames, m \in Messages :
        ~sessionExists(sessions, c) =>
          /\ createCronJob("standup", c, At0300, NULL, m) =>
               (last'.outcome = "not_found" /\ UNCHANGED <<cronJobs, cronRequests>>)
          /\ createCronRequest("standup", c, At0300, NULL, m) =>
               (last'.outcome = "not_found" /\ UNCHANGED <<cronJobs, cronRequests>>)]_vars

\* a cron request for the empty name, asked for while a coworker that had a cron job has
\* been deleted and another one exists: refused
C19_Witness ==
  /\ last.op = "createCronRequest" /\ last.outcome = "not_found" /\ last.name = ""
  /\ sessionIdCounter = 3 /\ Cardinality(DOMAIN sessions) = 1
  /\ cronJobIdCounter = 2 /\ cronJobs = <<>>
  /\ cronRequests = <<>>

\* ---------------------------------------------------------------- switching jobs on and off
\* storage.updateCronJobLastRun, as the scheduler calls it when a job has run
updateCronJobLastRun(id, lastRun) ==
  /\ cronJobs' = IF id \in DOMAIN cronJobs THEN [cronJobs EXCEPT ![id].last_run = lastRun]
                                            ELSE cronJobs
  /\ last' = Result("updateCronJobLastRun", "ok", id, "", "")
  /\ UNCHANGED <<backend, others, cronHistory,
                 clock, sessions, sessionIdCounter, messages, messageIdCounter,
                 cronJobIdCounter, cronRequests, cronRequestIdCounter, tasks, taskIdCounter,
                 inv, del, tx, observed>>

RecordRun == \E id \in JobIds : updateCronJobLastRun(id, clock)

NextSwitch ==
  \/ Tick
  \/ CreateRequester
  \/ CreateFixedTimeJob
  \/ RecordRun
  \/ EnableCronJob
  \/ DisableCronJob
  \/ DeleteCronJob

SpecSwitch == Init /\ [][NextSwitch]_vars

\* C20: enableCronJob, disableCronJob and deleteCronJob on an id that no job has fail
\* with not-found and change no job.  On a job that exists enableCronJob and
\* disableCronJob succeed and leave every job as it was but for that job's enabled flag,
\* which is true after enable and false after disable: its name, coworker, schedule,
\* timezone, message and last_run are as before, and enabling an enabled job or
\* disabling a disabled one changes nothing.
C20_SwitchChangesOnlyTheFlag ==
  [][\A id \in JobIds :
        /\ (id \notin DOMAIN cronJobs /\ (enableCronJob(id) \/ disableCronJob(id)
                                              \/ deleteCronJob(id))) =>
             (last'.outcome = "not_found" /\ cronJobs' = cronJobs)
        /\ (id \in DOMAIN cronJobs /\ enableCronJob(id)) =>
             /\ last'.outcome = "ok"
             /\ cronJobs' = [cronJobs EXCEPT ![id].enabled = TRUE]
             /\ cronJobs[id].enabled => cronJobs' = cronJobs
        /\ (id \in DOMAIN cronJobs /\ disableCronJob(id)) =>
             /\ last'.outcome = "ok"
             /\ cronJobs' = [cronJobs EXCEPT ![id].enabled = FALSE]
             /\ ~cronJobs[id].enabled => cronJobs' = cronJobs]_vars

\* a job that has run, enabled by a call to enableCronJob
C20_Witness ==
  /\ last.op = "enableCronJob" /\ last.outcome = "ok"
  /\ last.id \in DOMAIN cronJobs
  /\ cronJobs[last.id].enabled
  /\ cronJobs[last.id].last_run # NoDate

\* ---------------------------------------------------------------- requests side by side
\* Several requests of one name, reviewed and deleted, next to the cron jobs.
AllRequestIds == 1 .. (MaxCronRequests + 1)

RequestCron ==
  \E c \in CoworkerNames, m \in Messages : createCronRequest("standup", c, At0300, NULL, m)
ApproveAnyRequest ==
  \E id \in AllRequestIds, n \in ReviewerNotes : approveCronRequest(id, "carol", n)
RejectAnyRequest ==
  \E id \in AllRequestIds, n \in ReviewerNotes : rejectCronRequest(id, "carol", n)
DeleteAnyRequest == \E id \in AllRequestIds : deleteCronRequest(id)

NextRequests ==
  \/ CreateCoworker
  \/ CreateCoworkerCronJob
  \/ RequestCron
  \/ ApproveAnyRequest
  \/ RejectAnyRequest
  \/ DeleteAnyRequest

SpecRequests == Init /\ [][NextRequests]_vars

\* C21: approveCronRequest and rejectCronRequest never create, delete or modify a cron
\* job: the cron jobs and each of their fields are the same after the call as before
\* it, whether the call succeeds or fails.
C21_ReviewLeavesCronJobs ==
  [][\A id \in AllRequestIds, n \in ReviewerNotes :
        (/\ last'.op \in {"approveCronRequest", "rejectCronRequest"}
         /\ approveCronRequest(id, "carol", n) \/ rejectCronRequest(id, "carol", n))
        => (cronJobs' = cronJobs /\ cronJobIdCounter' = cronJobIdCounter)]_vars

\* a request approved while the only cron job is another coworker's
C21_Witness ==
  /\ last.op = "approveCronRequest" /\ last.outcome = "ok"
  /\ cronRequests[last.id].status = "approved"
  /\ Cardinality(DOMAIN cronJobs) = 1
  /\ \A j \in DOMAIN cronJobs : cronJobs[j].session_name # cronRequests[last.id].session_name

\* C22: createCronRequest for an existing coworker always succeeds with status pending,
\* whatever cron jobs or cron requests of the same name the coworker already has: the
\* new request has an id of its own, and no existing request or job is changed.
C22_RequestsOfOneNameCoexist ==
  [][\A c \in CoworkerNames, m \in Messages :
        (/\ last'.op = "createCronRequest"
         /\ sessionExists(sessions, c)
         /\ createCronRequest("standup", c, At0300, NULL, m))
        => /\ last'.outcome = "ok"
           /\ last'.id \notin DOMAIN cronRequests
           /\ DOMAIN cronRequests' = DOMAIN cronRequests \cup {last'.id}
           /\ cronRequests'[last'.id].status = "pending"
           /\ cronRequests'[last'.id].name = "standup"
           /\ cronRequests'[last'.id].session_name = c
           /\ \A i \in DOMAIN cronRequests : cronRequests'[i] = cronRequests[i]
           /\ cronJobs' = cronJobs]_vars

\* two pending requests of one name and coworker, who has a cron job of that name too
C22_Witness ==
  /\ last.op = "createCronRequest" /\ last.outcome = "ok" /\ last.id = 2
  /\ DOMAIN cronRequests = {1, 2}
  /\ cronRequests[1].status = "pending" /\ cronRequests[2].status = "pending"
  /\ cronRequests[1].name = cronRequests[2].name
  /\ cronRequests[1].session_name = cronRequests[2].session_name
  /\ \E j \in DOMAIN cronJobs : /\ cronJobs[j].name = cronRequests[2].name
                                /\ cronJobs[j].session_name = cronRequests[2].session_name

\* an id that was given to a request which is no longer stored
Deleted(id) == id < cronRequestIdCounter /\ id \notin DOMAIN cronRequests

\* C23: deleteCronRequest removes the request whatever its status and fails with
\* not-found for an absent id; once a request is deleted it stays deleted, and
\* approveCronRequest, rejectCronRequest and deleteCronRequest on its id all fail with
\* not-found.
C23_DeleteAnyStatusThenNotFound ==
  [][\A id \in AllRequestIds :
        /\ (last'.op = "deleteCronRequest" /\ deleteCronRequest(id)) =>
             IF id \in DOMAIN cronRequests
               THEN /\ last'.outcome = "ok"
                    /\ DOMAIN cronRequests' = DOMAIN cronRequests \ {id}
                    /\ \A i \in DOMAIN cronRequests' : cronRequests'[i] = cronRequests[i]
               ELSE last'.outcome = "not_found" /\ cronRequests' = cronRequests
        /\ Deleted(id) =>
             /\ id \notin DOMAIN cronRequests'
             /\ \A n \in ReviewerNotes :
                  (/\ last'.op \in {"approveCronRequest", "rejectCronRequest",
                                    "deleteCronRequest"}
                   /\ \/ approveCronRequest(id, "carol", n)
                      \/ rejectCronRequest(id, "carol", n)
                      \/ deleteCronRequest(id))
                  => last'.outcome = "not_found"]_vars

\* a reviewed request was deleted, and an approval of its id is refused as not found
C23_Witness ==
  /\ last.op = "approveCronRequest" /\ last.outcome = "not_found"
  /\ Deleted(last.id)
  /\ \E i \in DOMAIN cronRequests : cronRequests[i].status = "rejected"

\* ---------------------------------------------------------------- requests, listed
StatusFilters == {UNDEFINED, "", "pending", "approved"}
NameFilters == {UNDEFINED, ""} \cup CoworkerNames

ApproveRequest == \E id \in AllRequestIds : approveCronRequest(id, "carol", UNDEFINED)
ListCronRequests == \E st \in StatusFilters, c \in NameFilters : listCronRequests(st, c)

NextListing ==
  \/ Tick
  \/ CreateCoworker
  \/ RequestCron
  \/ ApproveRequest
  \/ ListCronRequests

SpecListing == Init /\ [][NextListing]_vars

\* a filter is supplied when it is given a value, the empty string being none
FilterGiven(f) == f # UNDEFINED /\ f # ""
Passes(r, status, coworkerName) ==
  /\ FilterGiven(status) => r.status = status
  /\ FilterGiven(coworkerName) => r.session_name = coworkerName

\* C27: listCronRequests returns exactly the requests that satisfy every supplied
\* filter (status and coworker name, each optional, combined with AND; with no filter,
\* every request), each once, ordered by requested_at descending.
C27_ListIsFilteredAndOrdered ==
  [][\A st \in StatusFilters, c \in NameFilters :
        (last'.op = "listCronRequests" /\ listCronRequests(st, c)) =>
          LET rows == last'.detail.rows
          IN /\ \A k \in DOMAIN rows :
                  /\ rows[k].id \in DOMAIN cronRequests
                  /\ rows[k] = CronRequestInfo(cronRequests[rows[k].id])
                  /\ Passes(rows[k], st, c)
             /\ \A i \in DOMAIN cronRequests :
                  Passes(cronRequests[i], st, c) =>
                    Cardinality({k \in DOMAIN rows : rows[k].id = i}) = 1
             /\ \A k \in 1 .. (Len(rows) - 1) :
                  rows[k].requested_at >= rows[k + 1].requested_at]_vars

\* both filters given: one of two requests is listed, the later request first when
\* only the status is given
C27_Witness ==
  /\ last.op = "listCronRequests"
  /\ last.detail.status = "pending" /\ last.detail.coworkerName = "alice"
  /\ Len(last.detail.rows) = 1
  /\ Cardinality(DOMAIN cronRequests) = 2

\* ---------------------------------------------------------------- tasks, searched
\* the search strings: empty, the start of a title, the inside of a title, the end of a
\* description, and one found nowhere
Queries == {<<>>, <<"f">>, <<"i", "x">>, <<"o", "w">>, <<"z">>}
SearchAssignees == {UNDEFINED, "alice", "bob"}
SearchColumns == {UNDEFINED, "idea", "done"}

AddSearchedTask ==
  \E t \in {Title, Renamed}, a \in TaskAssignees, c \in {"idea", "done"} :
     createTask(t, Description, a, c, <<>>)
SearchTasks ==
  \E q \in Queries, a \in SearchAssignees, c \in SearchColumns : searchTasks(q, a, c)

NextSearch ==
  \/ Tick
  \/ AddSearchedTask
  \/ DeleteTask
  \/ SearchTasks

SpecSearch == Init /\ [][NextSearch]_vars

\* C24: searchTasks(query, filters) returns exactly the stored tasks whose title or
\* description contains query as a substring, at any position, and whose assignee and
\* column equal every filter supplied; with the empty query every task that passes the
\* filters is returned.
C24_SearchFindsSubstrings ==
  [][\A q \in Queries, a \in SearchAssignees, c \in SearchColumns :
        (last'.op = "searchTasks" /\ searchTasks(q, a, c)) =>
          {last'.detail.ids[k] : k \in DOMAIN last'.detail.ids}
            = {i \in DOMAIN tasks :
                 /\ Includes(tasks[i].title, q) \/ Includes(tasks[i].description, q)
                 /\ FilterGiven(a) => tasks[i].assignee = a
                 /\ FilterGiven(c) => tasks[i].column = c}]_vars

\* C37: the storage backends are interchangeable for searchTasks: for the same stored
\* tasks, query and filters, the in-memory storage and the SQLite storage return the
\* same tasks in the same created_at-descending order.
C37_SearchSameOnMemoryAndSqlite ==
  \A q \in Queries, a \in SearchAssignees, c \in SearchColumns :
     St_searchTasks("mock", tasks, q, a, c) = St_searchTasks("sqlite", tasks, q, a, c)

\* the two agree on the queries that are empty or start a title or a description
C37_SameForPrefixes ==
  \A q \in {<<>>, <<"f">>, <<"z">>}, a \in SearchAssignees, c \in SearchColumns :
     St_searchTasks("mock", tasks, q, a, c) = St_searchTasks("sqlite", tasks, q, a, c)

\* ---------------------------------------------------------------- coworker names
\* Coworkers created, deleted and created again, of either type.
NamedTypes == {"assistant", "reviewer"}
CreateNamed == \E n \in CoworkerNames, t \in NamedTypes : createSession(n, t)

NextNames ==
  \/ Tick
  \/ CreateNamed
  \/ DeleteSession
  \/ DeleteCoworker

SpecNames == Init /\ [][NextNames]_vars

\* C25: coworker names are unique: after any sequence of createSession and delete
\* operations at most one coworker record exists per name; createSession with a name
\* that already exists fails with the already-exists error and leaves the existing
\* record unchanged.
C25_CoworkerNamesAreUnique ==
  [][/\ \A i, j \in DOMAIN sessions' : sessions'[i].name = sessions'[j].name => i = j
     /\ \A n \in CoworkerNames, t \in NamedTypes :
          (/\ last'.op = "createSession"
           /\ sessionExists(sessions, n)
           /\ createSession(n, t))
          => (last'.outcome = "already_exists" /\ sessions' = sessions)]_vars

\* a name deleted and taken again by a new record, then refused to a third
C25_Witness ==
  /\ last.op = "createSession" /\ last.outcome = "already_exists"
  /\ sessionIdCounter = 3 /\ DOMAIN sessions = {2}
  /\ sessions[2].name = last.name

\* ---------------------------------------------------------------- sendMessage, step by step
\* One createMessage per step, for what a failing step leaves behind and for what
\* another process reads meanwhile.
SendFrame ==
  UNCHANGED <<backend, cli, initializing, delivered, cronHistory, cronHistoryIdCounter,
              listeners, pending, initialized, clock, sessions, sessionIdCounter,
              cronJobs, cronJobIdCounter, cronRequests,
              cronRequestIdCounter, tasks, taskIdCounter, inv, del, tx>>

\* const messages = [], then the loop over recipients
send_call(from, recipients, body) ==
  /\ send.pc = "idle"
  /\ send' = [pc |-> "createMessage", from |-> from, recipients |-> recipients,
              body |-> body, pre |-> messages]
  /\ UNCHANGED <<messages, messageIdCounter, coworkerMailState, invoked, observed, last>>
  /\ SendFrame

\* await this.storage.createMessage(from, to, body), and the return after the last
send_createMessage ==
  /\ send.pc = "createMessage"
  /\ messageIdCounter <= MaxMessages
  /\ LET to == Head(send.recipients)
     IN /\ messages' = St_createMessage(messages, messageIdCounter, send.from, to, send.body,
                                        clock)
        /\ coworkerMailState' = MemoryModel(backend, coworkerMailState, send.from, to, clock)
        /\ invoked' = IF Notifies(backend, coworkerMailState, send.from, to, clock)
                        THEN Notify(invoked, listeners) ELSE invoked
  /\ messageIdCounter' = messageIdCounter + 1
  /\ IF Tail(send.recipients) = <<>>
       THEN /\ send' = NoSend
            /\ observed' = NotObserved
            /\ last' = Result("sendMessage", "ok", messageIdCounter, send.from, "")
       ELSE /\ send' = [send EXCEPT !.recipients = Tail(@)]
            /\ UNCHANGED <<observed, last>>
  /\ SendFrame

\* the insert at hand throws (the connection is lost, the database is locked): the
\* error is the command's, and no statement undoes the inserts before it
send_throw ==
  /\ send.pc = "createMessage"
  /\ backend # "mock"
  /\ send' = NoSend
  /\ observed' = NotObserved
  /\ last' = Result("sendMessage", "storage_error", 0, send.from, Head(send.recipients))
  /\ UNCHANGED <<messages, messageIdCounter, coworkerMailState, invoked>>
  /\ SendFrame

\* another process lists the messages while the command runs
send_read ==
  /\ send.pc = "createMessage"
  /\ observed' = [messages |-> messages, pre |-> send.pre]
  /\ UNCHANGED <<messages, messageIdCounter, coworkerMailState, invoked, send, last>>
  /\ SendFrame

SendCall ==
  \E f \in CoworkerNames, to \in Recipients, m \in Messages :
     messageIdCounter + Len(to) - 1 <= MaxMessages /\ send_call(f, to, m)

NextSendSteps ==
  \/ send.pc = "idle" /\ Tick
  \/ SendCall
  \/ send_createMessage
  \/ send_throw
  \/ send_read

SpecSendSteps == Init /\ [][NextSendSteps]_vars

\* C26: sendMessage to several recipients is applied atomically: if creating the
\* message for a later recipient fails, no message for an earlier recipient remains
\* stored, and a concurrent reader never sees the messages of only some of the
\* recipients (it sees the messages as they were before the call).
C26_SendIsAllOrNothing ==
  [][/\ send_throw => messages' = send.pre
     /\ send_read => observed'.messages = observed'.pre]_vars

\* ---------------------------------------------------------------- cron history
\* Runs recorded for two jobs, listed, and the jobs deleted.
HistoryJobIds == 1 .. 2
ExecutedAt == 1 .. 2
Limits == {0, 1, 2, 10}

CreateHistoryJob ==
  /\ cronJobIdCounter <= 2
  /\ \E n \in CronNames : createCronJob(n, "alice", At0300, NULL, "hello")
CreateCronHistory ==
  \E id \in HistoryJobIds, at \in ExecutedAt :
     \/ createCronHistory(id, at, TRUE, UNDEFINED)
     \/ createCronHistory(id, at, FALSE, "failed")
GetCronHistory == \E id \in HistoryJobIds, limit \in Limits : getCronHistory(id, limit)

NextHistory ==
  \/ CreateRequester
  \/ CreateHistoryJob
  \/ CreateCronHistory
  \/ GetCronHistory
  \/ DeleteCronJob

SpecHistory == Init /\ [][NextHistory]_vars

\* the entries of a job
EntriesOf(cronJobId) == {i \in DOMAIN cronHistory : cronHistory[i].cron_job_id = cronJobId}

\* getCronHistory(id, limit) returns min(limit, n) of the n entries of the job, none
\* twice, the most recent ones, in descending order of executed_at; it never fails
MostRecentFirst ==
  \A id \in HistoryJobIds, limit \in Limits :
     (last'.op = "getCronHistory" /\ getCronHistory(id, limit)) =>
       LET ids == last'.detail.ids
           returned == {ids[k] : k \in DOMAIN ids}
           n == Cardinality(EntriesOf(id))
       IN /\ last'.outcome = "ok"
          /\ Len(ids) = IF limit < n THEN limit ELSE n
          /\ Cardinality(returned) = Len(ids)
          /\ returned \subseteq EntriesOf(id)
          /\ \A i \in returned, j \in EntriesOf(id) \ returned :
               cronHistory[i].executed_at >= cronHistory[j].executed_at
          /\ \A k \in 1 .. (Len(ids) - 1) :
               cronHistory[ids[k]].executed_at >= cronHistory[ids[k + 1]].executed_at

\* no step removes or changes an entry
AppendOnly ==
  \A i \in DOMAIN cronHistory :
     i \in DOMAIN cronHistory' /\ cronHistory'[i] = cronHistory[i]

\* C28: getCronHistory(id, limit) returns the min(limit, n) most recent of the n history
\* entries of that job, ordered by executed_at descending, and the empty list without
\* error for an id that has no history; history entries are only ever appended, never
\* modified.
C28_HistoryMostRecentAndAppendOnly ==
  [][MostRecentFirst /\ AppendOnly]_vars

\* ---------------------------------------------------------------- unread mail
MessageIds == 1 .. MaxMessages
MarkMessageAsRead == \E id \in MessageIds : markMessageAsRead(id)
CheckUnreadMail == \E c \in CoworkerNames : checkUnreadMail(c)
GetUnreadMail == \E c \in CoworkerNames : getUnreadMail(c)

NextMail ==
  \/ Tick
  \/ SendMessage
  \/ MarkMessageAsRead
  \/ CheckUnreadMail
  \/ GetUnreadMail

SpecMail == Init /\ [][NextMail]_vars

\* the messages addressed to a coworker, and the unread ones among them
MailOf(M, c) == {i \in DOMAIN M : M[i].to_name = c}
UnreadOf(M, c) == {i \in MailOf(M, c) : ~M[i].read}

\* C29: getUnreadMail(coworker) returns exactly the messages addressed to the coworker
\* that were unread when it was called; when it returns, every message addressed to the
\* coworker is marked read, so that a getUnreadMail repeated at once returns the empty
\* list and a checkUnreadMail returns false.
C29_UnreadMailIsReadOnce ==
  [][\A c \in CoworkerNames :
        /\ (last'.op = "getUnreadMail" /\ getUnreadMail(c)) =>
             /\ {last'.detail[k] : k \in DOMAIN last'.detail} = UnreadOf(messages, c)
             /\ Len(last'.detail) = Cardinality(UnreadOf(messages, c))
             /\ UnreadOf(messages', c) = {}
             /\ MailOf(messages', c) = MailOf(messages, c)
             /\ (last.op = "getUnreadMail" /\ last.name = c) => last'.detail = <<>>
        /\ (/\ last.op = "getUnreadMail" /\ last.name = c
            /\ last'.op = "checkUnreadMail" /\ checkUnreadMail(c))
           => last'.detail = FALSE]_vars

\* two unread messages were returned, and both are now marked read
C29_Witness ==
  /\ last.op = "getUnreadMail" /\ Len(last.detail) = 2
  /\ \A i \in MailOf(messages, last.name) : messages[i].read
  /\ Cardinality(MailOf(messages, last.name)) = 2

\* ---------------------------------------------------------------- watchers
Watch == \E l \in Listeners : watch(l)
Unsubscribe == \E l \in Listeners : unsubscribe(l)
WatchThen == \E l \in Listeners : watch_then(l)
SendOne == \E t \in CoworkerNames : sendMessage("alice", <<t>>, "hello")

NextWatch ==
  \/ Tick
  \/ CreateRequester
  \/ Watch
  \/ Unsubscribe
  \/ WatchThen
  \/ SendOne

SpecWatch == Init /\ [][NextWatch]_vars

\* C30: once the unsubscribe function that watch(listener) returned has been called, the
\* listener is not called again unless it is passed to watch again: the unsubscribe
\* takes it out of the listeners, and every notification, that of a later createMessage
\* and the first one that watch schedules, calls subscribed listeners only.
C30_UnsubscribedIsNotCalled ==
  [][/\ \A l \in Listeners : unsubscribe(l) => l \notin listeners'
     /\ invoked' # invoked => (invoked'.called # {} /\ invoked'.called \subseteq listeners)]_vars

\* the first notification of a watch came after the unsubscribe and called nobody
C30_Witness ==
  /\ last.op = "watch.then" /\ last.outcome = "skipped"
  /\ last.name \notin listeners
  /\ invoked = NoneInvoked
  /\ messages # <<>>

\* ---------------------------------------------------------------- the jobs due at an instant
\* SELECT ... FROM cron_jobs ORDER BY name / [...cronJobs].sort by name
St_listCronJobs(J) == SortIds(DOMAIN J, [i \in DOMAIN J |-> NameRank(J[i].name)])

\* the loop of getActiveCronJobs over the listing: a disabled job is passed over, and so
\* is one whose pattern or zone new Cron refuses (the catch)
RECURSIVE activeJobs(_, _, _)
activeJobs(J, allJobs, referenceDate) ==
  IF allJobs = <<>> THEN <<>>
  ELSE LET job == J[Head(allJobs)]
           rest == activeJobs(J, Tail(allJobs), referenceDate)
       IN IF ~job.enabled THEN rest
          ELSE IF ~CronAccepts(job.schedule, job.timezone) THEN rest
          ELSE IF CronMatch(job.schedule, job.timezone, TruncateToMinute(referenceDate))
            THEN <<Head(allJobs)>> \o rest
            ELSE rest

\* a listing of the due jobs that does not look at the enabled flag
getActiveCronJobs_IgnoresEnabled(referenceDate) ==
  /\ LET J == [i \in DOMAIN cronJobs |-> [cronJobs[i] EXCEPT !.enabled = TRUE]]
     IN last' = Result("getActiveCronJobs", "ok", 0, "",
                       [date |-> referenceDate,
                        ids |-> activeJobs(J, St_listCronJobs(J), referenceDate)])
  /\ CheckFrame

getActiveCronJobs(referenceDate) ==
  /\ last' = Result("getActiveCronJobs", "ok", 0, "",
                    [date |-> referenceDate,
                     ids |-> activeJobs(cronJobs, St_listCronJobs(cronJobs), referenceDate)])
  /\ CheckFrame

\* the schedules and zones given to the jobs: every minute, 03:00 in two zones, a
\* pattern that is refused and a zone that is refused
ZonedSchedules ==
  {<<EveryMinute, NULL>>, <<At0300, "UTC">>, <<At0300, "America/New_York">>,
   <<Unparsable, NULL>>, <<EveryMinute, "Nowhere/None">>}
CreateZonedJob ==
  \E n \in CronNames, c \in Requesters, z \in ZonedSchedules :
     createCronJob(n, c, z[1], z[2], "hello")
GetActiveCronJobs == \E d \in ReferenceDates : getActiveCronJobs(d)

NextActive ==
  \/ CreateRequester
  \/ CreateZonedJob
  \/ EnableCronJob
  \/ DisableCronJob
  \/ CheckCronJob
  \/ GetActiveCronJobs

SpecActive == Init /\ [][NextActive]_vars

\* what checkCronJob(id, d) would answer in this state
CheckAnswers(id, d, outcome) == ENABLED (checkCronJob(id, d) /\ last'.outcome = outcome)

Listed(ids) == {ids[k] : k \in DOMAIN ids}

\* C35: for every reference instant, getActiveCronJobs returns exactly the jobs for
\* which checkCronJob at that instant returns true; a job for which checkCronJob would
\* fail with the invalid-schedule error is left out of the result, and the call does
\* not fail.
C35_ActiveJobsAreTheDueJobs ==
  [][\A d \in ReferenceDates :
        getActiveCronJobs(d) =>
          /\ last'.outcome = "ok"
          /\ Listed(last'.detail.ids) = {id \in DOMAIN cronJobs : CheckAnswers(id, d, "true")}
          /\ \A id \in DOMAIN cronJobs :
                CheckAnswers(id, d, "invalid_schedule") => id \notin Listed(last'.detail.ids)]_vars

\* a listing of one job of two, the other being enabled with a zone that is refused
C35_Witness ==
  /\ last.op = "getActiveCronJobs"
  /\ Len(last.detail.ids) = 1
  /\ \E i, j \in DOMAIN cronJobs :
        /\ last.detail.ids = <<i>>
        /\ cronJobs[i].schedule = At0300
        /\ cronJobs[j].enabled /\ cronJobs[j].timezone = "Nowhere/None"

\* a listing that leaves out a job that is due but disabled
C35_DisabledLeftOut ==
  /\ last.op = "getActiveCronJobs"
  /\ \E i \in DOMAIN cronJobs :
        /\ ~cronJobs[i].enabled /\ cronJobs[i].schedule = EveryMinute
        /\ cronJobs[i].timezone = NULL

\* ---------------------------------------------------------------- the command line
\* One invocation of the program: the preAction hook, then the action of the command,
\* one await per step.  An error thrown in an action is not caught anywhere: the promise
\* of the action is rejected and the process ends.
Commands == {"create-coworker", "request-cron", "delete-coworker", "approve-cron-request"}
StorageOptions == {"sqlite", "postgresql", "both", "none"}
CliFrame ==
  UNCHANGED <<backend, initializing, delivered, clock, tables, inv, del, tx, observed, cronHistory,
              cronHistoryIdCounter, send, listeners, pending, invoked, coworkerMailState,
              initialized>>

Exited(error) == [cli EXCEPT !.pc = "exited", !.error = error]

\* .hook('preAction', ...): the storage the options name is created and migrated
cli_preAction(command, opts) ==
  /\ cli.pc = "idle"
  /\ opts = "sqlite" => backend = "sqlite"
  /\ opts = "postgresql" => backend = "postgres"
  /\ cli' = IF opts = "both"
              THEN [Exited("both options") EXCEPT !.command = command]
            ELSE IF opts = "none"
              THEN [cli EXCEPT !.pc = "action", !.command = command]
              ELSE [cli EXCEPT !.pc = "action", !.command = command, !.storage = "open"]
  /\ UNCHANGED last
  /\ CliFrame

\* const storage = await getStorage()
cli_getStorage ==
  /\ cli.pc = "action"
  /\ IF cli.storage = "null"
       THEN cli' = Exited("Storage not initialized") /\ UNCHANGED last
       ELSE /\ cli' = [cli EXCEPT !.pc = "operation"]
            /\ last' = Result("getStorage", "ok", 0, "", "")
  /\ CliFrame

\* await <command function>(storage, ...): the one operation of the command
cli_operation ==
  /\ cli.pc = "operation"
  /\ last.op = "getStorage"
  /\ \/ cli.command = "create-coworker" /\ CreateRequester
     \/ cli.command = "request-cron" /\ CreateCronRequest
     \/ cli.command = "delete-coworker" /\ \E n \in Requesters : deleteCoworker(n)
     \/ cli.command = "approve-cron-request" /\ ApproveCronRequest

\* await storage.close(), the statement after the operation: it is reached when the
\* operation has returned, not when it has thrown
cli_close ==
  /\ cli.pc = "operation"
  /\ last.op # "getStorage"
  /\ cli' = IF last.outcome = "ok"
              THEN [cli EXCEPT !.pc = "exited", !.storage = "closed"]
              ELSE Exited(last.outcome)
  /\ UNCHANGED last
  /\ CliFrame

\* the next invocation of the program
cli_run ==
  /\ cli.pc = "exited"
  /\ cli' = NoCli
  /\ last' = Result("none", "", 0, "", "")
  /\ CliFrame

CliPreAction == \E c \in Commands, o \in StorageOptions : cli_preAction(c, o)

NextCli ==
  \/ CliPreAction
  \/ cli_getStorage
  \/ cli_operation
  \/ cli_close
  \/ cli_run

SpecCli == Init /\ [][NextCli]_vars

\* C36: every CLI action that obtains the storage closes it once its single operation
\* is over, on the failure path as well as on the success path, and never uses the
\* storage after closing it: an invocation that has ended and had a storage has closed
\* it, and the operation runs on an open storage.
C36_StorageClosedOnEveryPath ==
  /\ (cli.pc = "exited" /\ cli.storage # "null") => cli.storage = "closed"
  /\ cli.pc = "operation" => cli.storage = "open"

\* the same for the invocations whose operation returned
C36_ClosedOnSuccess ==
  /\ (cli.pc = "exited" /\ cli.error = "") => cli.storage = "closed"
  /\ cli.pc = "operation" => cli.storage = "open"

\* ---------------------------------------------------------------- racing getUnreadMail
\* getUnreadMail of two processes, one store access per step: inv[p].read is the
\* unreadMessages of the invocation, inv[p].id the number of them it has marked.
MailInvFrame ==
  UNCHANGED <<backend, others, cronHistory, clock, sessions, sessionIdCounter,
              messageIdCounter, cronJobs, cronJobIdCounter, cronRequests,
              cronRequestIdCounter, tasks, taskIdCounter, del, tx, observed, last>>

mail_call(p, coworkerName) ==
  /\ inv[p].pc = "idle"
  /\ inv' = [inv EXCEPT ![p] = [NoInv EXCEPT !.op = "getUnreadMail",
                                           !.pc = "listMessagesForRecipient",
                                           !.name = coworkerName, !.read = <<>>]]
  /\ UNCHANGED messages
  /\ MailInvFrame

\* const unreadMessages = await this.storage.listMessagesForRecipient(coworkerName,
\* { unread: true })
mail_listMessagesForRecipient(p) ==
  /\ inv[p].pc = "listMessagesForRecipient"
  /\ LET unreadMessages == St_listMessagesForRecipient(messages, inv[p].name, TRUE)
     IN inv' = [inv EXCEPT ![p] =
                  [@ EXCEPT !.read = unreadMessages,
                            !.pc = IF unreadMessages = <<>> THEN "done"
                                   ELSE "markMessageAsRead",
                            !.outcome = IF unreadMessages = <<>> THEN "ok" ELSE ""]]
  /\ UNCHANGED messages
  /\ MailInvFrame

\* await this.storage.markMessageAsRead(message.id), for the next message of the list
mail_markMessageAsRead(p) ==
  /\ inv[p].pc = "markMessageAsRead"
  /\ messages' = St_markMessageAsRead(messages, inv[p].read[inv[p].id + 1])
  /\ inv' = [inv EXCEPT ![p] =
               IF inv[p].id + 1 = Len(inv[p].read)
                 THEN [@ EXCEPT !.id = @ + 1, !.pc = "done", !.outcome = "ok"]
                 ELSE [@ EXCEPT !.id = @ + 1]]
  /\ MailInvFrame

MailCall == \E p \in Procs, c \in CoworkerNames : mail_call(p, c)
MailList == \E p \in Procs : mail_listMessagesForRecipient(p)
MailMark == \E p \in Procs : mail_markMessageAsRead(p)

NextMailRace ==
  \/ Tick
  \/ Idle /\ SendMessage
  \/ MailCall
  \/ MailList
  \/ MailMark

SpecMailRace == Init /\ [][NextMailRace]_vars

\* C38: when two getUnreadMail invocations for the same coworker interleave, every
\* unread message is returned by at most one of the two.
C38_UnreadReturnedOnce ==
  \A p, q \in Procs :
     (/\ p # q
      /\ inv[p].pc = "done" /\ inv[q].pc = "done"
      /\ inv[p].name = inv[q].name)
       => Listed(inv[p].read) \cap Listed(inv[q].read) = {}

\* what holds of them: a message returned has been marked read, whoever returned it
C38_ReturnedIsRead ==
  \A p \in Procs :
     inv[p].pc = "done" =>
       \A i \in Listed(inv[p].read) : i \in DOMAIN messages /\ messages[i].read

\* ---------------------------------------------------------------- watch during initializeState
\* initializeState one await at a time, with createMessage and further watch calls in
\* between.  A listing and the statements that follow it up to the next await are one
\* step.
LazyFrame ==
  UNCHANGED <<backend, cli, cronHistory, cronHistoryIdCounter, send, pending, invoked, clock,
              sessions, sessionIdCounter, cronJobs, cronJobIdCounter, cronRequests,
              cronRequestIdCounter, tasks, taskIdCounter, inv, del, tx, observed>>

\* buildWatchState: recipient -> sender -> lastSent, from the memory model
buildWatchState(state) == state

\* the state notifyWatchers of the in-memory storage builds from the messages: for
\* every pair the created_at of the message pushed last
MockWatchState(M) ==
  LET to == {M[i].to_name : i \in DOMAIN M}
      from(r) == {M[i].from_name : i \in {k \in DOMAIN M : M[k].to_name = r}}
      lastOf(r, x) == Max({i \in DOMAIN M : M[i].to_name = r /\ M[i].from_name = x})
  IN [r \in to |-> [x \in from(r) |-> M[lastOf(r, x)].created_at]]

\* watch(listener): the listener is added and initializeState is called, which returns
\* at once when initialized is set and otherwise goes on to list the sessions
lazy_watch(listener) ==
  /\ listener \notin listeners
  /\ initializing[listener].pc = "idle"
  /\ listeners' = listeners \cup {listener}
  /\ initializing' =
       [initializing EXCEPT ![listener].pc =
          IF backend = "mock" THEN "idle"
          ELSE IF initialized THEN "then" ELSE "listSessions"]
  /\ last' = Result("watch", "ok", 0, listener, "")
  /\ UNCHANGED <<messages, messageIdCounter, coworkerMailState, initialized, delivered>>
  /\ LazyFrame

\* const sessions = await this.listSessions(), and the first loop: every session gets
\* a new, empty sender map
lazy_listSessions(listener) ==
  /\ initializing[listener].pc = "listSessions"
  /\ LET ids == SortIds(DOMAIN sessions, [i \in DOMAIN sessions |-> 0 - i])
         names == [k \in DOMAIN ids |-> sessions[ids[k]].name]
     IN /\ coworkerMailState' =
             [r \in DOMAIN coworkerMailState \cup Listed(names) |->
                IF r \in Listed(names) THEN <<>> ELSE coworkerMailState[r]]
        /\ initializing' =
             [initializing EXCEPT ![listener] =
                IF names = <<>> THEN [pc |-> "then", sessions |-> <<>>]
                ELSE [pc |-> "listMessagesForRecipient", sessions |-> names]]
        /\ initialized' = IF names = <<>> THEN TRUE ELSE initialized
  /\ last' = Result("initializeState", "listSessions", 0, listener, "")
  /\ UNCHANGED <<messages, messageIdCounter, listeners, delivered>>
  /\ LazyFrame

\* the sender map of a recipient after the loop over the messages sent to it
SenderMapAfter(senderMap, M, r) ==
  LET mine == {i \in DOMAIN M : M[i].to_name = r}
      senders == {M[i].from_name : i \in mine}
      latest(x) == Max({M[i].created_at : i \in {k \in mine : M[k].from_name = x}})
  IN [x \in DOMAIN senderMap \cup senders |->
        IF x \notin senders THEN senderMap[x]
        ELSE IF x \in DOMAIN senderMap /\ senderMap[x] >= latest(x) THEN senderMap[x]
        ELSE latest(x)]

\* const messages = await this.listMessagesForRecipient(session.name) and the loop over
\* them, for the next session; after the last session, this.initialized = true
lazy_listMessagesForRecipient(listener) ==
  /\ initializing[listener].pc = "listMessagesForRecipient"
  /\ LET r == Head(initializing[listener].sessions)
         rest == Tail(initializing[listener].sessions)
     IN /\ coworkerMailState' =
             [coworkerMailState EXCEPT ![r] = SenderMapAfter(@, messages, r)]
        /\ initializing' =
             [initializing EXCEPT ![listener] =
                IF rest = <<>> THEN [pc |-> "then", sessions |-> <<>>]
                ELSE [pc |-> "listMessagesForRecipient", sessions |-> rest]]
        /\ initialized' = IF rest = <<>> THEN TRUE ELSE initialized
  /\ last' = Result("initializeState", "listMessagesForRecipient", 0, listener, "")
  /\ UNCHANGED <<messages, messageIdCounter, listeners, delivered>>
  /\ LazyFrame

\* .then(() => ...): the listener, if still subscribed, is called with the state built
\* from the memory model
lazy_then(listener) ==
  /\ initializing[listener].pc = "then"
  /\ initializing' = [initializing EXCEPT ![listener] = NotInitializing]
  /\ delivered' = IF listener \in listeners
                    THEN [delivered EXCEPT ![listener] = buildWatchState(coworkerMailState)]
                    ELSE delivered
  /\ last' = Result("watch.then", "called", 0, listener, "")
  /\ UNCHANGED <<messages, messageIdCounter, listeners, coworkerMailState, initialized>>
  /\ LazyFrame

\* createMessage(from, to, body): the insert, the update of the memory model and, if
\* the message is the latest of its pair, the call of every listener
lazy_createMessage(from, to) ==
  /\ messageIdCounter <= MaxMessages
  /\ messages' = St_createMessage(messages, messageIdCounter, from, to, "hello", clock)
  /\ messageIdCounter' = messageIdCounter + 1
  /\ coworkerMailState' = MemoryModel(backend, coworkerMailState, from, to, clock)
  /\ delivered' =
       IF ~Notifies(backend, coworkerMailState, from, to, clock) THEN delivered
       ELSE [l \in Listeners |->
               IF l \notin listeners THEN delivered[l]
               ELSE IF backend = "mock" THEN MockWatchState(messages')
               ELSE buildWatchState(coworkerMailState')]
  /\ last' = Result("createMessage", "ok", messageIdCounter, from, to)
  /\ UNCHANGED <<listeners, initialized, initializing>>
  /\ LazyFrame

LazyWatch == \E l \in Listeners : lazy_watch(l)
LazyListSessions == \E l \in Listeners : lazy_listSessions(l)
LazyListMessages == \E l \in Listeners : lazy_listMessagesForRecipient(l)
LazyThen == \E l \in Listeners : lazy_then(l)
LazyCreateMessage == \E f \in Requesters, t \in CoworkerNames : lazy_createMessage(f, t)
CreateWatched ==
  /\ listeners = {}
  /\ \E n \in CoworkerNames, t \in CoworkerTypes : createSession(n, t)

NextLazy ==
  \/ Tick
  \/ CreateWatched
  \/ LazyWatch
  \/ LazyListSessions
  \/ LazyListMessages
  \/ LazyThen
  \/ LazyCreateMessage

SpecLazy == Init /\ [][NextLazy]_vars

\* the entries of a state: the (recipient, sender) pairs it reports
Entries(state) == {<<r, x>> : r \in DOMAIN state, x \in CoworkerNames} \cap
                  {e \in CoworkerNames \X CoworkerNames :
                     e[1] \in DOMAIN state /\ e[2] \in DOMAIN state[e[1]]}

\* C39: across the successive states delivered to a watch listener, the lastSent of a
\* (recipient, sender) pair never moves backwards and an entry once reported never
\* disappears, also when createMessage is called or a second watch() is registered
\* while the lazy initialization of the mail state is still running.
C39_DeliveredStatesOnlyGrow ==
  [][\A l \in Listeners :
        \A e \in Entries(delivered[l]) :
           /\ e \in Entries(delivered'[l])
           /\ delivered'[l][e[1]][e[2]] >= delivered[l][e[1]][e[2]]]_vars

\* the part that holds: a lastSent that is reported again is not an earlier one
C39_LastSentNeverEarlier ==
  [][\A l \in Listeners :
        \A e \in Entries(delivered[l]) \cap Entries(delivered'[l]) :
           delivered'[l][e[1]][e[2]] >= delivered[l][e[1]][e[2]]]_vars

\* the same as C39 once initializeState has run to its end
C39_GrowOnceInitialized ==
  [][(initialized /\ \A l \in Listeners : initializing[l].pc \in {"idle", "then"}) =>
        \A l \in Listeners :
           \A e \in Entries(delivered[l]) :
              /\ e \in Entries(delivered'[l])
              /\ delivered'[l][e[1]][e[2]] >= delivered[l][e[1]][e[2]]]_vars

====
